---- MODULE Spec2Model ----
(***************************************************************************)
(* SevaLink chatbot routes (POST /text, POST /voice-text), their heuristic *)
(* NLU helpers, and the Pagination component of the client.                *)
(*                                                                         *)
(* A JavaScript string is modelled as the sequence of its UTF-16 code      *)
(* units, so that every regular expression, includes(), toLowerCase() and  *)
(* replace() of the source is computed on characters as the engine does.   *)
(* The text a tuple of numbers stands for is given in the comment at the   *)
(* end of its line.                                                        *)
(***************************************************************************)
EXTENDS Integers, Sequences, FiniteSets, TLC

VARIABLES
  input,     \* text function harness: the text the helper is applied to
  op,        \* text function harness: name of the helper applied last ("init" before)
  output,    \* text function harness: the value the helper returned
  turns,     \* routes: number of turns handled so far
  req,       \* routes: the request body and collaborator behaviour of the last turn
  resp,      \* routes: the HTTP response of the last turn
  created,   \* routes: the entity Request.save persisted in the last turn, or NoEntity
  chatLog,   \* routes: the Chat document saved in the last turn, or NoChat
  nRequests, \* routes: number of documents in the Request collection
  prev,      \* routes: the request and the response of the turn before the last one
  env,       \* what the collaborators may do in this run, and the number of turns
  currentPage,    \* Pagination: the prop currentPage, a state of the parent
  totalPages,     \* Pagination: the prop totalPages
  rendered,       \* Pagination: what the component returned when it rendered last
  lastPageChange  \* Pagination: the argument of the last onPageChange call

paginationVars == <<currentPage, totalPages, rendered, lastPageChange>>
vars == <<input, op, output, turns, req, resp, created, chatLog, nRequests, prev, env,
          paginationVars>>

(***************************************************************************)
(* JavaScript values                                                       *)
(***************************************************************************)
\* undefined and null are kept apart from every string
Undefined == <<-1>>
Null == <<-2>>
EmptyStr == <<>>

\* ToBoolean on the values a slot can hold: undefined, null and '' are falsy
Truthy(v) == v # Undefined /\ v # Null /\ v # EmptyStr

\* a || b
Or(a, b) == IF Truthy(a) THEN a ELSE b

\* const x = value; Body(x): the value of a local is computed once and then read
Let(value, Body(_)) == Body(value)

(***************************************************************************)
(* Characters                                                              *)
(***************************************************************************)
\* \w of a non-unicode RegExp: [A-Za-z0-9_]
IsWordChar(c) == c \in 65..90 \/ c \in 97..122 \/ c \in 48..57 \/ c = 95

\* \s of a RegExp (the code units that occur in the modelled texts)
WhiteSpace == {9, 10, 11, 12, 13, 32, 160}

\* String.prototype.toLowerCase / toUpperCase on one code unit (the cased
\* characters of the modelled texts are ASCII; Devanagari and Telugu have no case)
LowerChar(c) == IF c \in 65..90 THEN c + 32 ELSE c
UpperChar(c) == IF c \in 97..122 THEN c - 32 ELSE c

toLowerCase(s) == [k \in 1..Len(s) |-> LowerChar(s[k])]
toUpperCase(s) == [k \in 1..Len(s) |-> UpperChar(s[k])]

\* p occurs in s at position i (1-based)
HasAt(s, i, p) ==
  /\ i + Len(p) - 1 <= Len(s)
  /\ \A k \in 1..Len(p) : s[i + k - 1] = p[k]

\* String.prototype.includes
includes(s, p) == \E i \in 1..(Len(s) - Len(p) + 1) : HasAt(s, i, p)

\* some element of the list ps is included in s
includesAny(s, ps) == \E j \in 1..Len(ps) : includes(s, ps[j])

\* String.prototype.trim
RECURSIVE TrimLeft(_)
TrimLeft(s) == IF s # <<>> /\ s[1] \in WhiteSpace THEN TrimLeft(Tail(s)) ELSE s
RECURSIVE TrimRight(_)
TrimRight(s) ==
  IF s # <<>> /\ s[Len(s)] \in WhiteSpace THEN TrimRight(SubSeq(s, 1, Len(s) - 1)) ELSE s
trim(s) == TrimRight(TrimLeft(s))

(***************************************************************************)
(* Regular expressions.  A pattern is a tree:                              *)
(*   Lit(s)          the characters of s                                   *)
(*   Cls(S)          one character of the set S                            *)
(*   Rep(S, lo, hi)  greedy repetition of Cls(S), lo..hi times             *)
(*   Alt(<<r, ..>>)  r1|r2|.. tried in order                               *)
(*   Cat(<<r, ..>>)  r1 r2 ..                                              *)
(*   Grp(n, r)       capturing group number n                              *)
(*   WordB           \b                                                    *)
(* Run returns the matches of a pattern at a position in the order the     *)
(* backtracking engine of JavaScript tries them; the first one is the      *)
(* match the engine reports.                                               *)
(***************************************************************************)
Lit(s) == [t |-> "lit", s |-> s]
Cls(S) == [t |-> "cls", c |-> S]
Rep(S, lo, hi) == [t |-> "rep", c |-> S, lo |-> lo, hi |-> hi]
Alt(rs) == [t |-> "alt", rs |-> rs]
Cat(rs) == [t |-> "cat", rs |-> rs]
Grp(n, r) == [t |-> "grp", n |-> n, r |-> r]
WordB == [t |-> "wb"]

\* the alternation w1|w2|.. of literal words
Words(ws) == Alt([k \in 1..Len(ws) |-> Lit(ws[k])])

\* quantifier bound standing for "no upper limit": longer than any modelled text
Unbounded == 1000

\* character classes
Upper == 65..90
Lower == 97..122
Letter == Upper \cup Lower
Digit == 48..57
Devanagari == 2304..2431
Telugu == 3072..3199

\* capture groups of a match: <<start, end>> positions, <<0, 0>> when unset
NoGroups == << <<0, 0>>, <<0, 0>>, <<0, 0>> >>

\* character equality under the flag i (Canonicalize: toUpperCase)
SameChar(a, b, ci) == IF ci THEN UpperChar(a) = UpperChar(b) ELSE a = b

InClass(S, c, ci) == c \in S \/ (ci /\ (UpperChar(c) \in S \/ LowerChar(c) \in S))

LitAt(s, i, p, ci) ==
  /\ i + Len(p) - 1 <= Len(s)
  /\ \A k \in 1..Len(p) : SameChar(s[i + k - 1], p[k], ci)

\* \b holds at position i: exactly one of the characters around it is a word character
IsWordBoundary(s, i) ==
  (i > 1 /\ i - 1 <= Len(s) /\ IsWordChar(s[i - 1])) # (i <= Len(s) /\ IsWordChar(s[i]))

\* number of consecutive characters of class S from position i, at most hi
RECURSIVE RunLength(_, _, _, _, _)
RunLength(S, s, i, ci, hi) ==
  IF hi = 0 \/ i > Len(s) \/ ~InClass(S, s[i], ci) THEN 0
  ELSE 1 + RunLength(S, s, i + 1, ci, hi - 1)

RECURSIVE Run(_, _, _, _)
RECURSIVE RunAlt(_, _, _, _, _)
RECURSIVE RunCat(_, _, _, _, _)
RECURSIVE RunEach(_, _, _, _, _)

\* matches of r in s from the match state m = [p: position, g: groups]
Run(r, s, ci, m) ==
  CASE r.t = "lit" ->
         IF LitAt(s, m.p, r.s, ci) THEN <<[m EXCEPT !.p = @ + Len(r.s)]>> ELSE <<>>
    [] r.t = "cls" ->
         IF m.p <= Len(s) /\ InClass(r.c, s[m.p], ci) THEN <<[m EXCEPT !.p = @ + 1]>> ELSE <<>>
    [] r.t = "rep" ->
         LET n == RunLength(r.c, s, m.p, ci, r.hi)
         IN IF n < r.lo THEN <<>>
            ELSE [k \in 1..(n - r.lo + 1) |-> [m EXCEPT !.p = m.p + n - k + 1]]
    [] r.t = "wb" -> IF IsWordBoundary(s, m.p) THEN <<m>> ELSE <<>>
    [] r.t = "grp" ->
         LET inner == Run(r.r, s, ci, m)
         IN [k \in 1..Len(inner) |-> [inner[k] EXCEPT !.g[r.n] = <<m.p, inner[k].p>>]]
    [] r.t = "alt" -> RunAlt(r.rs, 1, s, ci, m)
    [] r.t = "cat" -> RunCat(r.rs, 1, s, ci, <<m>>)

RunAlt(rs, k, s, ci, m) ==
  IF k > Len(rs) THEN <<>> ELSE Run(rs[k], s, ci, m) \o RunAlt(rs, k + 1, s, ci, m)

\* the k-th item of a concatenation applied to every match of the items before it
RunEach(r, s, ci, ms, j) ==
  IF j > Len(ms) THEN <<>> ELSE Run(r, s, ci, ms[j]) \o RunEach(r, s, ci, ms, j + 1)

RunCat(rs, k, s, ci, ms) ==
  IF k > Len(rs) \/ ms = <<>> THEN ms ELSE RunCat(rs, k + 1, s, ci, RunEach(rs[k], s, ci, ms, 1))

NoMatch == [ok |-> FALSE, st |-> 0, en |-> 0, g |-> NoGroups]

\* RegExp.prototype.exec without the flag g: the leftmost match, searched from position i
RECURSIVE ExecFrom(_, _, _, _)
ExecFrom(r, s, ci, i) ==
  IF i > Len(s) + 1 THEN NoMatch
  ELSE LET ms == Run(r, s, ci, [p |-> i, g |-> NoGroups])
       IN IF ms # <<>> THEN [ok |-> TRUE, st |-> i, en |-> ms[1].p, g |-> ms[1].g]
          ELSE ExecFrom(r, s, ci, i + 1)

\* String.prototype.match(regexp) / RegExp.prototype.test
Match(r, s, ci) == ExecFrom(r, s, ci, 1)
Test(r, s, ci) == Match(r, s, ci).ok

\* the text of capture group n of a match (the whole match for n = 0)
Group(s, m, n) ==
  IF n = 0 THEN SubSeq(s, m.st, m.en - 1) ELSE SubSeq(s, m.g[n][1], m.g[n][2] - 1)

\* String.prototype.replace(regexp with the flag g, replacement string)
RECURSIVE ReplaceAllFrom(_, _, _, _, _)
ReplaceAllFrom(r, s, ci, by, i) ==
  IF i > Len(s) THEN <<>>
  ELSE LET ms == Run(r, s, ci, [p |-> i, g |-> NoGroups])
       IN IF ms # <<>> /\ ms[1].p > i
          THEN by \o ReplaceAllFrom(r, s, ci, by, ms[1].p)
          ELSE <<s[i]>> \o ReplaceAllFrom(r, s, ci, by, i + 1)
ReplaceAll(r, s, ci, by) == ReplaceAllFrom(r, s, ci, by, 1)

\* String.prototype.replace(string, replacement): the first occurrence only
RECURSIVE ReplaceFirstFrom(_, _, _, _)
ReplaceFirstFrom(s, p, by, i) ==
  IF i > Len(s) - Len(p) + 1 THEN s
  ELSE IF HasAt(s, i, p)
       THEN SubSeq(s, 1, i - 1) \o by \o SubSeq(s, i + Len(p), Len(s))
       ELSE ReplaceFirstFrom(s, p, by, i + 1)
ReplaceFirst(s, p, by) == ReplaceFirstFrom(s, p, by, 1)

(***************************************************************************)
(* extractBloodType                                                        *)
(***************************************************************************)
\* \s* and \s+
Spaces0 == Rep(WhiteSpace, 0, Unbounded)
Spaces1 == Rep(WhiteSpace, 1, Unbounded)

\* the alternatives of bloodTypePattern, in the order of the source
BloodTypeAlternatives == <<
  Lit(<<79,43>>),  \* "O+"
  Lit(<<79,45>>),  \* "O-"
  Lit(<<65,43>>),  \* "A+"
  Lit(<<65,45>>),  \* "A-"
  Lit(<<66,43>>),  \* "B+"
  Lit(<<66,45>>),  \* "B-"
  Lit(<<65,66,43>>),  \* "AB+"
  Lit(<<65,66,45>>),  \* "AB-"
  Cat(<<Lit(<<79>>), Spaces0, Lit(<<112,111,115,105,116,105,118,101>>)>>),  \* "O" "positive"
  Cat(<<Lit(<<79>>), Spaces0, Lit(<<110,101,103,97,116,105,118,101>>)>>),  \* "O" "negative"
  Cat(<<Lit(<<65>>), Spaces0, Lit(<<112,111,115,105,116,105,118,101>>)>>),  \* "A" "positive"
  Cat(<<Lit(<<65>>), Spaces0, Lit(<<110,101,103,97,116,105,118,101>>)>>),  \* "A" "negative"
  Cat(<<Lit(<<66>>), Spaces0, Lit(<<112,111,115,105,116,105,118,101>>)>>),  \* "B" "positive"
  Cat(<<Lit(<<66>>), Spaces0, Lit(<<110,101,103,97,116,105,118,101>>)>>),  \* "B" "negative"
  Cat(<<Lit(<<65,66>>), Spaces0, Lit(<<112,111,115,105,116,105,118,101>>)>>),  \* "AB" "positive"
  Cat(<<Lit(<<65,66>>), Spaces0, Lit(<<110,101,103,97,116,105,118,101>>)>>),  \* "AB" "negative"
  Lit(<<111,43>>),  \* "o+"
  Lit(<<111,45>>),  \* "o-"
  Lit(<<97,43>>),  \* "a+"
  Lit(<<97,45>>),  \* "a-"
  Lit(<<98,43>>),  \* "b+"
  Lit(<<98,45>>),  \* "b-"
  Lit(<<97,98,43>>),  \* "ab+"
  Lit(<<97,98,45>>),  \* "ab-"
  Cat(<<Lit(<<111>>), Spaces0, Lit(<<112,111,115,105,116,105,118,101>>)>>),  \* "o" "positive"
  Cat(<<Lit(<<111>>), Spaces0, Lit(<<110,101,103,97,116,105,118,101>>)>>),  \* "o" "negative"
  Cat(<<Lit(<<97>>), Spaces0, Lit(<<112,111,115,105,116,105,118,101>>)>>),  \* "a" "positive"
  Cat(<<Lit(<<97>>), Spaces0, Lit(<<110,101,103,97,116,105,118,101>>)>>),  \* "a" "negative"
  Cat(<<Lit(<<98>>), Spaces0, Lit(<<112,111,115,105,116,105,118,101>>)>>),  \* "b" "positive"
  Cat(<<Lit(<<98>>), Spaces0, Lit(<<110,101,103,97,116,105,118,101>>)>>),  \* "b" "negative"
  Cat(<<Lit(<<97,98>>), Spaces0, Lit(<<112,111,115,105,116,105,118,101>>)>>),  \* "ab" "positive"
  Cat(<<Lit(<<97,98>>), Spaces0, Lit(<<110,101,103,97,116,105,118,101>>)>>) >>  \* "ab" "negative"

\* /\b(O\+|O-|...|ab\s*negative)\b/i
bloodTypePattern == Cat(<<WordB, Grp(1, Alt(BloodTypeAlternatives)), WordB>>)

S_POSITIVE == <<80,79,83,73,84,73,86,69>>  \* "POSITIVE"
S_NEGATIVE == <<78,69,71,65,84,73,86,69>>  \* "NEGATIVE"
S_Plus == <<43>>  \* "+"
S_Minus == <<45>>  \* "-"

\* /\b(need|want|require|looking for|...)\s+(A|B|AB|O)\s*(positive|negative|\+|\-|...)/i
AlternativeVerbs == <<
  <<110,101,101,100>>,  \* "need"
  <<119,97,110,116>>,  \* "want"
  <<114,101,113,117,105,114,101>>,  \* "require"
  <<108,111,111,107,105,110,103,32,102,111,114>>,  \* "looking for"
  <<2330,2366,2361,2367,2319>>,  \* "चाहिए"
  <<2310,2357,2358,2381,2351,2325>>,  \* "आवश्यक"
  <<3093,3134,3125,3134,3122,3135>>,  \* "కావాలి"
  <<3077,3125,3128,3120,3074>> >>  \* "అవసరం"
AlternativeGroups == <<
  <<65>>,  \* "A"
  <<66>>,  \* "B"
  <<65,66>>,  \* "AB"
  <<79>> >>  \* "O"
S_positive == <<112,111,115,105,116,105,118,101>>  \* "positive"
S_hiPositive == <<2346,2377,2332,2367,2335,2367,2357>>  \* "पॉजिटिव"
S_hiNegative == <<2344,2375,2327,2375,2335,2367,2357>>  \* "नेगेटिव"
S_tePositive == <<3114,3134,3100,3135,3103,3135,3125,3149>>  \* "పాజిటివ్"
S_teNegative == <<3112,3142,3095,3103,3135,3125,3149>>  \* "నెగటివ్"
AlternativeRh == <<
  <<112,111,115,105,116,105,118,101>>,  \* "positive"
  <<110,101,103,97,116,105,118,101>>,  \* "negative"
  <<43>>,  \* "+"
  <<45>>,  \* "-"
  <<2346,2377,2332,2367,2335,2367,2357>>,  \* "पॉजिटिव"
  <<2344,2375,2327,2375,2335,2367,2357>>,  \* "नेगेटिव"
  <<3114,3134,3100,3135,3103,3135,3125,3149>>,  \* "పాజిటివ్"
  <<3112,3142,3095,3103,3135,3125,3149>> >>  \* "నెగటివ్"
alternativePattern ==
  Cat(<<WordB, Grp(1, Words(AlternativeVerbs)), Spaces1, Grp(2, Words(AlternativeGroups)),
        Spaces0, Grp(3, Words(AlternativeRh))>>)

\* /\b(ए|बी|एबी|ओ)\s*(पॉजिटिव|नेगेटिव|\+|\-)\s*(खून|रक्त)/i
HindiGroups == <<
  <<2319>>,  \* "ए"
  <<2348,2368>>,  \* "बी"
  <<2319,2348,2368>>,  \* "एबी"
  <<2323>> >>  \* "ओ"
HindiRh == <<
  <<2346,2377,2332,2367,2335,2367,2357>>,  \* "पॉजिटिव"
  <<2344,2375,2327,2375,2335,2367,2357>>,  \* "नेगेटिव"
  <<43>>,  \* "+"
  <<45>> >>  \* "-"
HindiBlood == <<
  <<2326,2370,2344>>,  \* "खून"
  <<2352,2325,2381,2340>> >>  \* "रक्त"
hindiPattern ==
  Cat(<<WordB, Grp(1, Words(HindiGroups)), Spaces0, Grp(2, Words(HindiRh)), Spaces0,
        Grp(3, Words(HindiBlood))>>)

\* /\b(ఎ|బి|ఎబి|ఓ)\s*(పాజిటివ్|నెగటివ్|\+|\-)\s*(రక్తం)/i
TeluguGroups == <<
  <<3086>>,  \* "ఎ"
  <<3116,3135>>,  \* "బి"
  <<3086,3116,3135>>,  \* "ఎబి"
  <<3091>> >>  \* "ఓ"
TeluguRh == <<
  <<3114,3134,3100,3135,3103,3135,3125,3149>>,  \* "పాజిటివ్"
  <<3112,3142,3095,3103,3135,3125,3149>>,  \* "నెగటివ్"
  <<43>>,  \* "+"
  <<45>> >>  \* "-"
TeluguBlood == <<
  <<3120,3093,3149,3108,3074>> >>  \* "రక్తం"
teluguPattern ==
  Cat(<<WordB, Grp(1, Words(TeluguGroups)), Spaces0, Grp(2, Words(TeluguRh)), Spaces0,
        Grp(3, Words(TeluguBlood))>>)

\* bloodGroupMap[g] || g of the Hindi and Telugu branches: the k-th script letter
\* maps to the k-th Latin group, any other text is kept
LatinGroups == <<
  <<65>>,  \* "A"
  <<66>>,  \* "B"
  <<65,66>>,  \* "AB"
  <<79>> >>  \* "O"
bloodGroupMap(letters, g) ==
  IF \E k \in 1..Len(letters) : letters[k] = g
  THEN LatinGroups[CHOOSE k \in 1..Len(letters) : letters[k] = g]
  ELSE g

\* NormalizeBloodType without the two replace calls of the Rh word
NormalizeKeepingRhWord(t) == ReplaceAll(Spaces1, toUpperCase(t), FALSE, <<>>)

\* match[1].toUpperCase().replace(/\s+/g, '').replace('POSITIVE', '+').replace('NEGATIVE', '-')
NormalizeBloodType(t) ==
  ReplaceFirst(ReplaceFirst(ReplaceAll(Spaces1, toUpperCase(t), FALSE, <<>>), S_POSITIVE, S_Plus),
               S_NEGATIVE, S_Minus)

extractBloodType(text) ==
  Let(Match(bloodTypePattern, text, TRUE), LAMBDA match :
    IF match.ok THEN NormalizeBloodType(Group(text, match, 1))
    ELSE Let(Match(alternativePattern, text, TRUE), LAMBDA altMatch :
      IF altMatch.ok
      THEN toUpperCase(Group(text, altMatch, 2)) \o
           (IF toLowerCase(Group(text, altMatch, 3))
                 \in {S_positive, S_Plus, S_hiPositive, S_tePositive}
            THEN S_Plus ELSE S_Minus)
      ELSE Let(Match(hindiPattern, text, TRUE), LAMBDA hindiMatch :
        IF hindiMatch.ok
        THEN bloodGroupMap(HindiGroups, Group(text, hindiMatch, 1)) \o
             (IF Group(text, hindiMatch, 2) \in {S_hiPositive, S_Plus}
              THEN S_Plus ELSE S_Minus)
        ELSE Let(Match(teluguPattern, text, TRUE), LAMBDA teluguMatch :
          IF teluguMatch.ok
          THEN bloodGroupMap(TeluguGroups, Group(text, teluguMatch, 1)) \o
               (IF Group(text, teluguMatch, 2) \in {S_tePositive, S_Plus}
                THEN S_Plus ELSE S_Minus)
          ELSE Null))))

(***************************************************************************)
(* detectLanguageFromText                                                  *)
(***************************************************************************)
TeluguWords == <<
  <<3120,3093,3149,3108,3074>>,  \* "రక్తం"
  <<3093,3134,3125,3134,3122,3135>>,  \* "కావాలి"
  <<3077,3125,3128,3120,3074>>,  \* "అవసరం"
  <<3114,3134,3100,3135,3103,3135,3125,3149>>,  \* "పాజిటివ్"
  <<3112,3142,3095,3103,3135,3125,3149>>,  \* "నెగటివ్"
  <<3077,3108,3149,3119,3125,3128,3120,3074>>,  \* "అత్యవసరం"
  <<3108,3149,3125,3120,3095,3134>> >>  \* "త్వరగా"
HindiWords == <<
  <<2326,2370,2344>>,  \* "खून"
  <<2352,2325,2381,2340>>,  \* "रक्त"
  <<2330,2366,2361,2367,2319>>,  \* "चाहिए"
  <<2310,2357,2358,2381,2351,2325>>,  \* "आवश्यक"
  <<2346,2377,2332,2367,2335,2367,2357>>,  \* "पॉजिटिव"
  <<2344,2375,2327,2375,2335,2367,2357>>,  \* "नेगेटिव"
  <<2340,2369,2352,2306,2340>>,  \* "तुरंत"
  <<2310,2346,2366,2340,2325,2366,2354>> >>  \* "आपातकाल"
RomanTeluguWords == <<
  <<114,97,107,116,104,97,109,117>>,  \* "rakthamu"
  <<107,97,118,97,108,105>>,  \* "kavali"
  <<97,118,97,115,97,114,97,109>>,  \* "avasaram"
  <<112,111,115,105,116,105,118,101>>,  \* "positive"
  <<110,101,103,97,116,105,118,101>>,  \* "negative"
  <<97,116,104,121,97,118,97,115,97,114,97,109>>,  \* "athyavasaram"
  <<116,104,118,97,114,97,103,97>> >>  \* "thvaraga"
RomanHindiWords == <<
  <<107,104,111,111,110>>,  \* "khoon"
  <<114,97,107,116,104>>,  \* "rakth"
  <<99,104,97,104,105,121,101>>,  \* "chahiye"
  <<97,97,118,97,115,104,121,97,107>>,  \* "aavashyak"
  <<112,111,115,105,116,105,118,101>>,  \* "positive"
  <<110,101,103,97,116,105,118,101>>,  \* "negative"
  <<116,117,114,97,110,116>>,  \* "turant"
  <<97,97,112,97,116,107,97,97,108>> >>  \* "aapatkaal"

detectLanguageFromText(text) ==
  IF Test(Cls(Telugu), text, FALSE) \/ Test(Words(TeluguWords), text, FALSE) THEN "te"
  ELSE IF Test(Cls(Devanagari), text, FALSE) \/ Test(Words(HindiWords), text, FALSE) THEN "hi"
  ELSE IF Test(Cat(<<WordB, Words(RomanTeluguWords), WordB>>), text, TRUE) THEN "te"
  ELSE IF Test(Cat(<<WordB, Words(RomanHindiWords), WordB>>), text, TRUE) THEN "hi"
  ELSE "en"

(***************************************************************************)
(* translateToEnglish                                                      *)
(***************************************************************************)
\* one .replace(/a|b/gi, 'english') of the chain: <<alternatives, replacement>>
HindiTable == <<
  << <<<<2352,2325,2381,2340>>, <<2326,2370,2344>>>>, <<98,108,111,111,100>> >>,  \* "रक्त" "खून" "blood"
  << <<<<2352,2325,2381,2340,2342,2366,2344>>>>, <<98,108,111,111,100,32,100,111,110,97,116,105,111,110>> >>,  \* "रक्तदान" "blood donation"
  << <<<<2330,2366,2361,2367,2319>>, <<2310,2357,2358,2381,2351,2325>>>>, <<110,101,101,100>> >>,  \* "चाहिए" "आवश्यक" "need"
  << <<<<2340,2369,2352,2306,2340>>, <<2340,2340,2381,2325,2366,2354>>>>, <<117,114,103,101,110,116>> >>,  \* "तुरंत" "तत्काल" "urgent"
  << <<<<2310,2346,2366,2340,2325,2366,2354>>>>, <<101,109,101,114,103,101,110,99,121>> >>,  \* "आपातकाल" "emergency"
  << <<<<2348,2369,2332,2369,2352,2381,2327>>>>, <<101,108,100,101,114,108,121>> >>,  \* "बुजुर्ग" "elderly"
  << <<<<2342,2357,2366>>, <<2342,2357,2366,2312>>>>, <<109,101,100,105,99,105,110,101>> >>,  \* "दवा" "दवाई" "medicine"
  << <<<<2325,2367,2352,2366,2344,2366>>>>, <<103,114,111,99,101,114,121>> >>,  \* "किराना" "grocery"
  << <<<<2342,2375,2326,2349,2366,2354>>>>, <<99,97,114,101>> >>,  \* "देखभाल" "care"
  << <<<<2358,2367,2325,2366,2351,2340>>>>, <<99,111,109,112,108,97,105,110,116>> >>,  \* "शिकायत" "complaint"
  << <<<<2360,2350,2360,2381,2351,2366>>>>, <<112,114,111,98,108,101,109>> >>,  \* "समस्या" "problem"
  << <<<<2360,2337,2364,2325>>>>, <<114,111,97,100>> >>,  \* "सड़क" "road"
  << <<<<2348,2340,2381,2340,2368>>, <<2354,2366,2311,2335>>>>, <<108,105,103,104,116>> >>,  \* "बत्ती" "लाइट" "light"
  << <<<<2346,2366,2344,2368>>>>, <<119,97,116,101,114>> >>,  \* "पानी" "water"
  << <<<<2348,2367,2332,2354,2368>>>>, <<101,108,101,99,116,114,105,99,105,116,121>> >>,  \* "बिजली" "electricity"
  << <<<<2325,2330,2352,2366>>>>, <<103,97,114,98,97,103,101>> >>,  \* "कचरा" "garbage"
  << <<<<2309,2360,2381,2346,2340,2366,2354>>>>, <<104,111,115,112,105,116,97,108>> >>,  \* "अस्पताल" "hospital"
  << <<<<2350,2352,2368,2332>>, <<2352,2379,2327,2368>>>>, <<112,97,116,105,101,110,116>> >>,  \* "मरीज" "रोगी" "patient"
  << <<<<2360,2352,2381,2332,2352,2368>>, <<2321,2346,2352,2375,2358,2344>>>>, <<115,117,114,103,101,114,121>> >>,  \* "सर्जरी" "ऑपरेशन" "surgery"
  << <<<<2319,32,2346,2377,2332,2367,2335,2367,2357>>>>, <<65,32,112,111,115,105,116,105,118,101>> >>,  \* "ए पॉजिटिव" "A positive"
  << <<<<2319,32,2344,2375,2327,2375,2335,2367,2357>>>>, <<65,32,110,101,103,97,116,105,118,101>> >>,  \* "ए नेगेटिव" "A negative"
  << <<<<2348,2368,32,2346,2377,2332,2367,2335,2367,2357>>>>, <<66,32,112,111,115,105,116,105,118,101>> >>,  \* "बी पॉजिटिव" "B positive"
  << <<<<2348,2368,32,2344,2375,2327,2375,2335,2367,2357>>>>, <<66,32,110,101,103,97,116,105,118,101>> >>,  \* "बी नेगेटिव" "B negative"
  << <<<<2319,2348,2368,32,2346,2377,2332,2367,2335,2367,2357>>>>, <<65,66,32,112,111,115,105,116,105,118,101>> >>,  \* "एबी पॉजिटिव" "AB positive"
  << <<<<2319,2348,2368,32,2344,2375,2327,2375,2335,2367,2357>>>>, <<65,66,32,110,101,103,97,116,105,118,101>> >>,  \* "एबी नेगेटिव" "AB negative"
  << <<<<2323,32,2346,2377,2332,2367,2335,2367,2357>>>>, <<79,32,112,111,115,105,116,105,118,101>> >>,  \* "ओ पॉजिटिव" "O positive"
  << <<<<2323,32,2344,2375,2327,2375,2335,2367,2357>>>>, <<79,32,110,101,103,97,116,105,118,101>> >> >>  \* "ओ नेगेटिव" "O negative"

TeluguTable == <<
  << <<<<3120,3093,3149,3108,3074>>>>, <<98,108,111,111,100>> >>,  \* "రక్తం" "blood"
  << <<<<3120,3093,3149,3108,3110,3134,3112,3074>>>>, <<98,108,111,111,100,32,100,111,110,97,116,105,111,110>> >>,  \* "రక్తదానం" "blood donation"
  << <<<<3093,3134,3125,3134,3122,3135>>, <<3077,3125,3128,3120,3074>>>>, <<110,101,101,100>> >>,  \* "కావాలి" "అవసరం" "need"
  << <<<<3077,3108,3149,3119,3125,3128,3120,3074>>, <<3108,3093,3149,3127,3107,3074>>>>, <<117,114,103,101,110,116>> >>,  \* "అత్యవసరం" "తక్షణం" "urgent"
  << <<<<3125,3139,3110,3149,3111,3137,3122,3137>>, <<3114,3142,3110,3149,3110,3122,3137>>>>, <<101,108,100,101,114,108,121>> >>,  \* "వృద్ధులు" "పెద్దలు" "elderly"
  << <<<<3118,3074,3110,3137>>, <<3118,3074,3110,3137,3122,3137>>>>, <<109,101,100,105,99,105,110,101>> >>,  \* "మందు" "మందులు" "medicine"
  << <<<<3093,3135,3120,3134,3107,3134>>>>, <<103,114,111,99,101,114,121>> >>,  \* "కిరాణా" "grocery"
  << <<<<3128,3074,3120,3093,3149,3127,3107>>>>, <<99,97,114,101>> >>,  \* "సంరక్షణ" "care"
  << <<<<3115,3135,3120,3149,3119,3134,3110,3137>>>>, <<99,111,109,112,108,97,105,110,116>> >>,  \* "ఫిర్యాదు" "complaint"
  << <<<<3128,3118,3128,3149,3119>>>>, <<112,114,111,98,108,101,109>> >>,  \* "సమస్య" "problem"
  << <<<<3120,3147,3105,3149,3105,3137>>>>, <<114,111,97,100>> >>,  \* "రోడ్డు" "road"
  << <<<<3122,3144,3103,3149>>>>, <<108,105,103,104,116>> >>,  \* "లైట్" "light"
  << <<<<3112,3136,3120,3137>>>>, <<119,97,116,101,114>> >>,  \* "నీరు" "water"
  << <<<<3093,3120,3142,3074,3103,3149>>>>, <<101,108,101,99,116,114,105,99,105,116,121>> >>,  \* "కరెంట్" "electricity"
  << <<<<3098,3142,3108,3149,3108>>>>, <<103,97,114,98,97,103,101>> >>,  \* "చెత్త" "garbage"
  << <<<<3078,3128,3137,3114,3108,3149,3120,3135>>>>, <<104,111,115,112,105,116,97,108>> >>,  \* "ఆసుపత్రి" "hospital"
  << <<<<3120,3147,3095,3135>>>>, <<112,97,116,105,101,110,116>> >>,  \* "రోగి" "patient"
  << <<<<3126,3128,3149,3108,3149,3120,3098,3135,3093,3135,3108,3149,3128>>>>, <<115,117,114,103,101,114,121>> >>,  \* "శస్త్రచికిత్స" "surgery"
  << <<<<3086,32,3114,3134,3100,3135,3103,3135,3125,3149>>>>, <<65,32,112,111,115,105,116,105,118,101>> >>,  \* "ఎ పాజిటివ్" "A positive"
  << <<<<3086,32,3112,3142,3095,3103,3135,3125,3149>>>>, <<65,32,110,101,103,97,116,105,118,101>> >>,  \* "ఎ నెగటివ్" "A negative"
  << <<<<3116,3135,32,3114,3134,3100,3135,3103,3135,3125,3149>>>>, <<66,32,112,111,115,105,116,105,118,101>> >>,  \* "బి పాజిటివ్" "B positive"
  << <<<<3116,3135,32,3112,3142,3095,3103,3135,3125,3149>>>>, <<66,32,110,101,103,97,116,105,118,101>> >>,  \* "బి నెగటివ్" "B negative"
  << <<<<3086,3116,3135,32,3114,3134,3100,3135,3103,3135,3125,3149>>>>, <<65,66,32,112,111,115,105,116,105,118,101>> >>,  \* "ఎబి పాజిటివ్" "AB positive"
  << <<<<3086,3116,3135,32,3112,3142,3095,3103,3135,3125,3149>>>>, <<65,66,32,110,101,103,97,116,105,118,101>> >>,  \* "ఎబి నెగటివ్" "AB negative"
  << <<<<3091,32,3114,3134,3100,3135,3103,3135,3125,3149>>>>, <<79,32,112,111,115,105,116,105,118,101>> >>,  \* "ఓ పాజిటివ్" "O positive"
  << <<<<3091,32,3112,3142,3095,3103,3135,3125,3149>>>>, <<79,32,110,101,103,97,116,105,118,101>> >> >>  \* "ఓ నెగటివ్" "O negative"

\* the chain of replace calls of a table applied from its k-th entry on; each
\* intermediate text is computed before the next replace is applied to it
RECURSIVE ApplyTable(_, _, _)
ApplyTable(table, k, text) ==
  IF k > Len(table) THEN text
  ELSE LET replaced == ReplaceAll(Words(table[k][1]), text, TRUE, table[k][2])
       IN IF Len(replaced) >= 0 THEN ApplyTable(table, k + 1, replaced) ELSE replaced

\* translateToEnglish with replace calls that lack the flag g: each entry replaces its
\* first occurrence only
RECURSIVE ApplyTableOnce(_, _, _)
ApplyTableOnce(table, k, text) ==
  IF k > Len(table) THEN text
  ELSE LET m == Match(Words(table[k][1]), text, TRUE)
           replaced == IF m.ok
                       THEN SubSeq(text, 1, m.st - 1) \o table[k][2]
                            \o SubSeq(text, m.en, Len(text))
                       ELSE text
       IN IF Len(replaced) >= 0 THEN ApplyTableOnce(table, k + 1, replaced) ELSE replaced
translateFirstOccurrences(text) ==
  IF ~Test(Cls(Devanagari \cup Telugu), text, FALSE) THEN text
  ELSE ApplyTableOnce(TeluguTable, 1, ApplyTableOnce(HindiTable, 1, text))

translateToEnglish(text) ==
  IF ~Test(Cls(Devanagari \cup Telugu), text, FALSE) THEN text
  ELSE ApplyTable(TeluguTable, 1, ApplyTable(HindiTable, 1, text))

(***************************************************************************)
(* extractUrgency, categorizeRequest, determinePriority                    *)
(***************************************************************************)
UrgentWords == <<
  <<117,114,103,101,110,116>>,  \* "urgent"
  <<101,109,101,114,103,101,110,99,121>>,  \* "emergency"
  <<97,115,97,112>>,  \* "asap"
  <<105,109,109,101,100,105,97,116,101,108,121>>,  \* "immediately"
  <<99,114,105,116,105,99,97,108>>,  \* "critical"
  <<100,121,105,110,103>>,  \* "dying"
  <<115,101,114,105,111,117,115>> >>  \* "serious"
LowWords == <<
  <<108,111,119>>,  \* "low"
  <<110,111,116,32,117,114,103,101,110,116>>,  \* "not urgent"
  <<99,97,110,32,119,97,105,116>>,  \* "can wait"
  <<102,108,101,120,105,98,108,101>>,  \* "flexible"
  <<119,104,101,110,32,112,111,115,115,105,98,108,101>>,  \* "when possible"
  <<119,104,101,110,101,118,101,114>> >>  \* "whenever"
HighWords == <<
  <<104,105,103,104>>,  \* "high"
  <<115,111,111,110>>,  \* "soon"
  <<110,101,101,100,101,100>>,  \* "needed"
  <<114,101,113,117,105,114,101,100>>,  \* "required"
  <<102,97,115,116>>,  \* "fast"
  <<113,117,105,99,107>> >>  \* "quick"
MediumWords == <<
  <<109,101,100,105,117,109>>,  \* "medium"
  <<110,111,114,109,97,108>>,  \* "normal"
  <<114,101,103,117,108,97,114>>,  \* "regular"
  <<109,111,100,101,114,97,116,101>>,  \* "moderate"
  <<115,116,97,110,100,97,114,100>> >>  \* "standard"
S_urgent == <<117,114,103,101,110,116>>  \* "urgent"
S_low == <<108,111,119>>  \* "low"
S_high == <<104,105,103,104>>  \* "high"
S_medium == <<109,101,100,105,117,109>>  \* "medium"

extractUrgency(text) ==
  Let(toLowerCase(text), LAMBDA t :
    IF Test(Words(UrgentWords), t, TRUE) THEN S_urgent
    ELSE IF Test(Words(LowWords), t, TRUE) THEN S_low
    ELSE IF Test(Words(HighWords), t, TRUE) THEN S_high
    ELSE IF Test(Words(MediumWords), t, TRUE) THEN S_medium
    ELSE Null)

\* . of a RegExp: any character but a line terminator
LineTerminators == {10, 13, 8232, 8233}
AnyChar == (0..65535) \ LineTerminators

BloodPatterns == <<
  <<98,108,111,111,100>>,  \* "blood"
  <<100,111,110,97,116,101>>,  \* "donate"
  <<100,111,110,97,116,105,111,110>>,  \* "donation"
  <<116,114,97,110,115,102,117,115,105,111,110>>,  \* "transfusion"
  <<112,108,97,115,109,97>>,  \* "plasma"
  <<112,108,97,116,101,108,101,116,115>>,  \* "platelets"
  <<2352,2325,2381,2340>>,  \* "रक्त"
  <<2326,2370,2344>>,  \* "खून"
  <<3120,3093,3149,3108,3074>>,  \* "రక్తం"
  <<100,111,110,111,114>>,  \* "donor"
  <<111,43>>,  \* "o+"
  <<111,45>>,  \* "o-"
  <<97,43>>,  \* "a+"
  <<97,45>>,  \* "a-"
  <<98,43>>,  \* "b+"
  <<98,45>>,  \* "b-"
  <<97,98,43>>,  \* "ab+"
  <<97,98,45>>,  \* "ab-"
  <<115,117,114,103,101,114,121>>,  \* "surgery"
  <<111,112,101,114,97,116,105,111,110>>,  \* "operation"
  <<104,111,115,112,105,116,97,108>>,  \* "hospital"
  <<112,97,116,105,101,110,116>> >>  \* "patient"
EmergencyWordsBefore == <<
  <<101,109,101,114,103,101,110,99,121>>,  \* "emergency"
  <<117,114,103,101,110,116>>,  \* "urgent"
  <<99,114,105,116,105,99,97,108>>,  \* "critical"
  <<105,109,109,101,100,105,97,116,101>>,  \* "immediate"
  <<97,115,97,112>> >>  \* "asap"
EmergencyWordsAfter == <<
  <<2310,2346,2366,2340,2325,2366,2354>>,  \* "आपातकाल"
  <<2340,2369,2352,2306,2340>>,  \* "तुरंत"
  <<3077,3108,3149,3119,3125,3128,3120,3074>>,  \* "అత్యవసరం"
  <<57,49,49>>,  \* "911"
  <<49,48,56>>,  \* "108"
  <<97,109,98,117,108,97,110,99,101>> >>  \* "ambulance"
\* /emergency|urgent|critical|immediate|asap|help.*urgent|...|911|108|ambulance/
EmergencyPattern ==
  Alt(<<Words(EmergencyWordsBefore),
        Cat(<<Lit(<<104,101,108,112>>), Rep(AnyChar, 0, Unbounded), Lit(<<117,114,103,101,110,116>>)>>),  \* "help" "urgent"
        Words(EmergencyWordsAfter)>>)
ElderPatterns == <<
  <<101,108,100,101,114,108,121>>,  \* "elderly"
  <<111,108,100>>,  \* "old"
  <<115,101,110,105,111,114>>,  \* "senior"
  <<109,101,100,105,99,105,110,101>>,  \* "medicine"
  <<103,114,111,99,101,114,121>>,  \* "grocery"
  <<99,97,114,101>>,  \* "care"
  <<99,97,114,101,103,105,118,101,114>>,  \* "caregiver"
  <<110,117,114,115,105,110,103>>,  \* "nursing"
  <<97,115,115,105,115,116,97,110,99,101>>,  \* "assistance"
  <<2348,2369,2332,2369,2352,2381,2327>>,  \* "बुजुर्ग"
  <<2342,2357,2366>>,  \* "दवा"
  <<3125,3139,3110,3149,3111,3137,3122,3137>>,  \* "వృద్ధులు"
  <<3118,3074,3110,3137,3122,3137>>,  \* "మందులు"
  <<103,114,97,110,100,102,97,116,104,101,114>>,  \* "grandfather"
  <<103,114,97,110,100,109,111,116,104,101,114>>,  \* "grandmother"
  <<112,97,114,101,110,116>>,  \* "parent"
  <<109,111,109>>,  \* "mom"
  <<100,97,100>>,  \* "dad"
  <<109,111,116,104,101,114>>,  \* "mother"
  <<102,97,116,104,101,114>> >>  \* "father"
ComplaintPatterns == <<
  <<99,111,109,112,108,97,105,110,116>>,  \* "complaint"
  <<112,114,111,98,108,101,109>>,  \* "problem"
  <<105,115,115,117,101>>,  \* "issue"
  <<98,114,111,107,101,110>>,  \* "broken"
  <<110,111,116,32,119,111,114,107,105,110,103>>,  \* "not working"
  <<100,97,109,97,103,101,100>>,  \* "damaged"
  <<102,97,117,108,116>>,  \* "fault"
  <<114,101,112,97,105,114>>,  \* "repair"
  <<102,105,120>>,  \* "fix"
  <<2358,2367,2325,2366,2351,2340>>,  \* "शिकायत"
  <<2360,2350,2360,2381,2351,2366>>,  \* "समस्या"
  <<3115,3135,3120,3149,3119,3134,3110,3137>>,  \* "ఫిర్యాదు"
  <<3128,3118,3128,3149,3119>>,  \* "సమస్య"
  <<115,116,114,101,101,116>>,  \* "street"
  <<108,105,103,104,116>>,  \* "light"
  <<114,111,97,100>>,  \* "road"
  <<119,97,116,101,114>>,  \* "water"
  <<101,108,101,99,116,114,105,99,105,116,121>>,  \* "electricity"
  <<103,97,114,98,97,103,101>>,  \* "garbage"
  <<115,101,119,97,103,101>>,  \* "sewage"
  <<100,114,97,105,110,97,103,101>>,  \* "drainage"
  <<112,111,116,104,111,108,101>>,  \* "pothole"
  <<110,111,105,115,101>>,  \* "noise"
  <<112,111,108,108,117,116,105,111,110>> >>  \* "pollution"

\* categorizeRequest with the emergency test made first
categorizeEmergencyFirst(text) ==
  Let(toLowerCase(text), LAMBDA lowerText :
    IF Test(EmergencyPattern, lowerText, FALSE) THEN "emergency"
    ELSE IF Test(Words(BloodPatterns), lowerText, FALSE) THEN "blood_request"
    ELSE IF Test(Words(ElderPatterns), lowerText, FALSE) THEN "elder_support"
    ELSE IF Test(Words(ComplaintPatterns), lowerText, FALSE) THEN "complaint"
    ELSE "general_inquiry")

categorizeRequest(text) ==
  Let(toLowerCase(text), LAMBDA lowerText :
    IF Test(Words(BloodPatterns), lowerText, FALSE) THEN "blood_request"
    ELSE IF Test(EmergencyPattern, lowerText, FALSE) THEN "emergency"
    ELSE IF Test(Words(ElderPatterns), lowerText, FALSE) THEN "elder_support"
    ELSE IF Test(Words(ComplaintPatterns), lowerText, FALSE) THEN "complaint"
    ELSE "general_inquiry")

PriorityUrgentWords == <<
  <<101,109,101,114,103,101,110,99,121>>,  \* "emergency"
  <<117,114,103,101,110,116>>,  \* "urgent"
  <<99,114,105,116,105,99,97,108>>,  \* "critical"
  <<2310,2346,2366,2340,2325,2366,2354>>,  \* "आपातकाल"
  <<2340,2369,2352,2306,2340>>,  \* "तुरंत"
  <<3077,3108,3149,3119,3125,3128,3120,3074>> >>  \* "అత్యవసరం"
PriorityHighWords == <<
  <<105,109,112,111,114,116,97,110,116>>,  \* "important"
  <<97,115,97,112>>,  \* "asap"
  <<115,111,111,110>>,  \* "soon"
  <<2332,2354,2381,2342,2368>>,  \* "जल्दी"
  <<3108,3149,3125,3120,3095,3134>> >>  \* "త్వరగా"
PriorityLowWords == <<
  <<119,104,101,110,101,118,101,114>>,  \* "whenever"
  <<110,111,32,114,117,115,104>>,  \* "no rush"
  <<2332,2348,32,2360,2350,2351,32,2361,2379>>,  \* "जब समय हो"
  <<3128,3118,3119,3074,32,3081,3112,3149,3112,3114,3149,3114,3137,3105,3137>> >>  \* "సమయం ఉన్నప్పుడు"

determinePriority(text) ==
  Let(toLowerCase(text), LAMBDA lowerText :
    IF Test(Words(PriorityUrgentWords), lowerText, FALSE) THEN S_urgent
    ELSE IF Test(Words(PriorityHighWords), lowerText, FALSE) THEN S_high
    ELSE IF Test(Words(PriorityLowWords), lowerText, FALSE) THEN S_low
    ELSE S_medium)

(***************************************************************************)
(* Slot maps (extractedInfo, conversationContext)                          *)
(***************************************************************************)
SlotNames == {"bloodType", "unitsNeeded", "hospitalName", "relationship", "urgencyLevel",
              "requiredDate", "patientName", "location", "age", "elderName", "serviceType",
              "supportType", "frequency", "complaintLocation", "complaintCategory"}

\* an object literal {}: every key reads undefined
EmptySlots == [k \in SlotNames |-> Undefined]

\* the spread written the other way round, {...b, ...a}: the keys of a win
SpreadKeepingFirst(a, b) == [k \in DOMAIN a |-> IF a[k] # Undefined THEN a[k] ELSE b[k]]

\* { ...a, ...b }: the keys of b override those of a
Spread(a, b) == [k \in SlotNames |-> IF b[k] # Undefined THEN b[k] ELSE a[k]]

\* values that are not strings: a Number n, a Date (days from now), an Array of one string
Num(n) == <<-4, n>>
DateIn(days) == <<-5, days>>
ArrayOf(s) == <<-3>> \o s

\* ToBoolean of a slot value: undefined, null, '' and 0 are falsy
TruthySlot(v) == Truthy(v) /\ v # Num(0)
OrSlot(a, b) == IF TruthySlot(a) THEN a ELSE b

\* parseInt of a string of decimal digits
RECURSIVE parseInt(_)
parseInt(d) ==
  IF d = <<>> THEN 0 ELSE 10 * parseInt(SubSeq(d, 1, Len(d) - 1)) + (d[Len(d)] - 48)

(***************************************************************************)
(* extractRequestInfo                                                      *)
(***************************************************************************)
\* /(\d+)\s*(unit|pint|bag)/i
UnitWords == <<
  <<117,110,105,116>>,  \* "unit"
  <<112,105,110,116>>,  \* "pint"
  <<98,97,103>> >>  \* "bag"
unitsPattern == Cat(<<Grp(1, Rep(Digit, 1, Unbounded)), Spaces0, Grp(2, Words(UnitWords))>>)

\* /(?:at|in|from)\s+([A-Z][a-zA-Z\s]+(?:hospital|medical|clinic|centre|center))/i
HospitalPrepositions == <<
  <<97,116>>,  \* "at"
  <<105,110>>,  \* "in"
  <<102,114,111,109>> >>  \* "from"
HospitalWords == <<
  <<104,111,115,112,105,116,97,108>>,  \* "hospital"
  <<109,101,100,105,99,97,108>>,  \* "medical"
  <<99,108,105,110,105,99>>,  \* "clinic"
  <<99,101,110,116,114,101>>,  \* "centre"
  <<99,101,110,116,101,114>> >>  \* "center"
hospitalPattern ==
  Cat(<<Words(HospitalPrepositions), Spaces1,
        Grp(1, Cat(<<Cls(Upper), Rep(Letter \cup WhiteSpace, 1, Unbounded),
                     Words(HospitalWords)>>))>>)

\* the relationship chain: <<phrases, value>>, the first entry with an included phrase wins
RelationshipTable == <<
  << <<<<109,121,32,109,111,116,104,101,114>>, <<109,111,109>>>>, <<77,111,116,104,101,114>> >>,  \* "my mother" "mom" "Mother"
  << <<<<109,121,32,102,97,116,104,101,114>>, <<100,97,100>>>>, <<70,97,116,104,101,114>> >>,  \* "my father" "dad" "Father"
  << <<<<109,121,32,98,114,111,116,104,101,114>>>>, <<66,114,111,116,104,101,114>> >>,  \* "my brother" "Brother"
  << <<<<109,121,32,115,105,115,116,101,114>>>>, <<83,105,115,116,101,114>> >>,  \* "my sister" "Sister"
  << <<<<109,121,32,102,114,105,101,110,100>>>>, <<70,114,105,101,110,100>> >>,  \* "my friend" "Friend"
  << <<<<109,121,115,101,108,102>>, <<102,111,114,32,109,101>>>>, <<83,101,108,102>> >> >>  \* "myself" "for me" "Self"

\* value of the first entry of an if / else-if chain of includes() tests, or none
RECURSIVE FirstIncluded(_, _, _, _)
FirstIncluded(table, k, text, none) ==
  IF k > Len(table) THEN none
  ELSE IF includesAny(text, table[k][1]) THEN table[k][2]
  ELSE FirstIncluded(table, k + 1, text, none)

UrgentPhrases == <<
  <<117,114,103,101,110,116>>,  \* "urgent"
  <<101,109,101,114,103,101,110,99,121>>,  \* "emergency"
  <<105,109,109,101,100,105,97,116,101,108,121>> >>  \* "immediately"
S_today == <<116,111,100,97,121>>  \* "today"
S_tomorrow == <<116,111,109,111,114,114,111,119>>  \* "tomorrow"

\* /(\d{2,3})\s*(?:year|yr|age)/i
AgeWords == <<
  <<121,101,97,114>>,  \* "year"
  <<121,114>>,  \* "yr"
  <<97,103,101>> >>  \* "age"
agePattern == Cat(<<Grp(1, Rep(Digit, 2, 3)), Spaces0, Words(AgeWords)>>)

\* /(?:for|help)\s+(?:my\s+)?(?:mother|father|grandmother|grandfather|grandma|grandpa)\s+([A-Z][a-z]+)/i
NameVerbs == <<
  <<102,111,114>>,  \* "for"
  <<104,101,108,112>> >>  \* "help"
NameRelations == <<
  <<109,111,116,104,101,114>>,  \* "mother"
  <<102,97,116,104,101,114>>,  \* "father"
  <<103,114,97,110,100,109,111,116,104,101,114>>,  \* "grandmother"
  <<103,114,97,110,100,102,97,116,104,101,114>>,  \* "grandfather"
  <<103,114,97,110,100,109,97>>,  \* "grandma"
  <<103,114,97,110,100,112,97>> >>  \* "grandpa"
namePattern ==
  Cat(<<Words(NameVerbs), Spaces1,
        Alt(<<Cat(<<Lit(<<109,121>>), Spaces1>>), Lit(<<>>)>>),  \* "my"
        Words(NameRelations), Spaces1,
        Grp(1, Cat(<<Cls(Upper), Rep(Lower, 1, Unbounded)>>))>>)

\* the service type chain: <<phrases, serviceType, supportType>>
ServiceTable == <<
  << <<<<109,101,100,105,99,105,110,101>>, <<109,101,100,105,99,97,116,105,111,110>>, <<112,105,108,108,115>>>>, << <<77,101,100,105,99,105,110,101,32,68,101,108,105,118,101,114,121>>, <<109,101,100,105,99,97,108>> >> >>,  \* "medicine" "medication" "pills" "Medicine Delivery" "medical"
  << <<<<100,111,99,116,111,114>>, <<97,112,112,111,105,110,116,109,101,110,116>>, <<109,101,100,105,99,97,108>>>>, << <<77,101,100,105,99,97,108,32,65,112,112,111,105,110,116,109,101,110,116>>, <<109,101,100,105,99,97,108>> >> >>,  \* "doctor" "appointment" "medical" "Medical Appointment" "medical"
  << <<<<102,111,111,100>>, <<109,101,97,108>>, <<99,111,111,107,105,110,103>>, <<103,114,111,99,101,114,121>>>>, << <<71,114,111,99,101,114,121,32,83,104,111,112,112,105,110,103>>, <<102,111,111,100>> >> >>,  \* "food" "meal" "cooking" "grocery" "Grocery Shopping" "food"
  << <<<<99,108,101,97,110>>, <<104,121,103,105,101,110,101>>, <<104,111,117,115,101,104,111,108,100>>>>, << <<72,111,117,115,101,104,111,108,100,32,72,101,108,112>>, <<104,121,103,105,101,110,101>> >> >>,  \* "clean" "hygiene" "household" "Household Help" "hygiene"
  << <<<<99,111,109,112,97,110,105,111,110>>, <<99,111,109,112,97,110,121>>, <<116,97,108,107>>>>, << <<67,111,109,112,97,110,105,111,110,115,104,105,112>>, <<99,111,109,112,97,110,105,111,110,115,104,105,112>> >> >>,  \* "companion" "company" "talk" "Companionship" "companionship"
  << <<<<101,109,101,114,103,101,110,99,121>>, <<117,114,103,101,110,116>>>>, << <<69,109,101,114,103,101,110,99,121,32,65,115,115,105,115,116,97,110,99,101>>, <<101,109,101,114,103,101,110,99,121>> >> >> >>  \* "emergency" "urgent" "Emergency Assistance" "emergency"

FrequencyTable == <<
  << <<<<100,97,105,108,121>>, <<101,118,101,114,121,32,100,97,121>>>>, <<100,97,105,108,121>> >>,  \* "daily" "every day" "daily"
  << <<<<119,101,101,107,108,121>>, <<111,110,99,101,32,97,32,119,101,101,107>>>>, <<119,101,101,107,108,121>> >>,  \* "weekly" "once a week" "weekly"
  << <<<<109,111,110,116,104,108,121>>>>, <<109,111,110,116,104,108,121>> >>,  \* "monthly" "monthly"
  << <<<<111,110,101,32,116,105,109,101>>, <<106,117,115,116,32,111,110,99,101>>>>, <<111,110,101,45,116,105,109,101>> >> >>  \* "one time" "just once" "one-time"

\* /(?:at|in|near)\s+([A-Z][a-zA-Z\s,]+)/
ComplaintPrepositions == <<
  <<97,116>>,  \* "at"
  <<105,110>>,  \* "in"
  <<110,101,97,114>> >>  \* "near"
complaintLocationPattern ==
  Cat(<<Words(ComplaintPrepositions), Spaces1,
        Grp(1, Cat(<<Cls(Upper), Rep(Letter \cup WhiteSpace \cup {44}, 1, Unbounded)>>))>>)

\* the complaint category chain with the test of the Electricity words moved to the front
ElectricityFirstCategoryTable == <<
  << <<<<101,108,101,99,116,114,105,99,105,116,121>>, <<112,111,119,101,114>>, <<108,105,103,104,116>>, <<101,108,101,99,116,114,105,99>>>>, <<69,108,101,99,116,114,105,99,105,116,121>> >>,  \* "electricity" "power" "light" "electric" "Electricity"
  << <<<<114,111,97,100>>, <<112,111,116,104,111,108,101>>, <<112,111,116,32,104,111,108,101>>, <<115,116,114,101,101,116>>, <<112,97,118,101,109,101,110,116>>>>, <<82,111,97,100,32,77,97,105,110,116,101,110,97,110,99,101>> >>,  \* "road" "pothole" "pot hole" "street" "pavement" "Road Maintenance"
  << <<<<119,97,116,101,114>>, <<100,114,97,105,110,97,103,101>>, <<108,101,97,107>>>>, <<87,97,116,101,114,32,83,117,112,112,108,121>> >>,  \* "water" "drainage" "leak" "Water Supply"
  << <<<<103,97,114,98,97,103,101>>, <<119,97,115,116,101>>, <<116,114,97,115,104>>, <<100,117,109,112>>>>, <<87,97,115,116,101,32,77,97,110,97,103,101,109,101,110,116>> >>,  \* "garbage" "waste" "trash" "dump" "Waste Management"
  << <<<<115,97,102,101,116,121>>, <<99,114,105,109,101>>, <<115,101,99,117,114,105,116,121>>>>, <<80,117,98,108,105,99,32,83,97,102,101,116,121>> >> >>  \* "safety" "crime" "security" "Public Safety"

\* the complaint category chain
ComplaintCategoryTable == <<
  << <<<<114,111,97,100>>, <<112,111,116,104,111,108,101>>, <<112,111,116,32,104,111,108,101>>, <<115,116,114,101,101,116>>, <<112,97,118,101,109,101,110,116>>>>, <<82,111,97,100,32,77,97,105,110,116,101,110,97,110,99,101>> >>,  \* "road" "pothole" "pot hole" "street" "pavement" "Road Maintenance"
  << <<<<119,97,116,101,114>>, <<100,114,97,105,110,97,103,101>>, <<108,101,97,107>>>>, <<87,97,116,101,114,32,83,117,112,112,108,121>> >>,  \* "water" "drainage" "leak" "Water Supply"
  << <<<<103,97,114,98,97,103,101>>, <<119,97,115,116,101>>, <<116,114,97,115,104>>, <<100,117,109,112>>>>, <<87,97,115,116,101,32,77,97,110,97,103,101,109,101,110,116>> >>,  \* "garbage" "waste" "trash" "dump" "Waste Management"
  << <<<<101,108,101,99,116,114,105,99,105,116,121>>, <<112,111,119,101,114>>, <<108,105,103,104,116>>, <<101,108,101,99,116,114,105,99>>>>, <<69,108,101,99,116,114,105,99,105,116,121>> >>,  \* "electricity" "power" "light" "electric" "Electricity"
  << <<<<115,97,102,101,116,121>>, <<99,114,105,109,101>>, <<115,101,99,117,114,105,116,121>>>>, <<80,117,98,108,105,99,32,83,97,102,101,116,121>> >> >>  \* "safety" "crime" "security" "Public Safety"

\* the keys a category's branch assigns; Undefined where the branch assigns nothing
\* match ? value(match) : undefined, for the branches that assign a key only on a match
WhenMatched(match, Value(_)) == IF match.ok THEN Value(match) ELSE Undefined

ExtractBlood(message) ==
  Let(toLowerCase(message), LAMBDA lowerMessage :
    [EmptySlots EXCEPT
       !.bloodType = Let(extractBloodType(message), LAMBDA bloodType :
                       IF Truthy(bloodType) THEN bloodType ELSE Undefined),
       !.unitsNeeded = WhenMatched(Match(unitsPattern, message, TRUE), LAMBDA unitsMatch :
                         Num(parseInt(Group(message, unitsMatch, 1)))),
       !.hospitalName = WhenMatched(Match(hospitalPattern, message, TRUE),
                                    LAMBDA hospitalMatch :
                                      trim(Group(message, hospitalMatch, 1))),
       !.relationship = FirstIncluded(RelationshipTable, 1, lowerMessage, Undefined),
       !.urgencyLevel = IF includesAny(lowerMessage, UrgentPhrases) THEN S_urgent
                        ELSE Undefined,
       !.requiredDate = IF includesAny(lowerMessage, UrgentPhrases)
                           \/ includes(lowerMessage, S_today) THEN DateIn(0)
                        ELSE IF includes(lowerMessage, S_tomorrow) THEN DateIn(1)
                        ELSE Undefined])

ExtractElder(message) ==
  Let(toLowerCase(message), LAMBDA lowerMessage :
    Let(FirstIncluded(ServiceTable, 1, lowerMessage, Undefined), LAMBDA service :
      [EmptySlots EXCEPT
         !.age = WhenMatched(Match(agePattern, message, TRUE), LAMBDA ageMatch :
                   Group(message, ageMatch, 1)),
         !.elderName = WhenMatched(Match(namePattern, message, TRUE), LAMBDA nameMatch :
                         Group(message, nameMatch, 1)),
         !.serviceType = IF service = Undefined THEN Undefined ELSE service[1],
         !.supportType = IF service = Undefined THEN Undefined ELSE ArrayOf(service[2]),
         !.frequency = FirstIncluded(FrequencyTable, 1, lowerMessage, Undefined)]))

ExtractComplaint(message) ==
  [EmptySlots EXCEPT
     !.complaintLocation = WhenMatched(Match(complaintLocationPattern, message, FALSE),
                                       LAMBDA locationMatch :
                                         trim(Group(message, locationMatch, 1))),
     !.complaintCategory =
        FirstIncluded(ComplaintCategoryTable, 1, toLowerCase(message), Undefined)]

extractRequestInfo(message, category, conversationContext) ==
  Spread(conversationContext,
         IF category = "blood_request" THEN ExtractBlood(message)
         ELSE IF category = "elder_support" THEN ExtractElder(message)
         ELSE IF category = "complaint" THEN ExtractComplaint(message)
         ELSE EmptySlots)

(***************************************************************************)
(* getMissingRequiredInfo, shouldCreateRequest, generateFollowUpQuestion   *)
(***************************************************************************)
\* getMissingRequiredInfo with the elder support test reading serviceType alone
getMissingIgnoringSupportType(category, extractedInfo) ==
  (IF category = "blood_request" /\ ~TruthySlot(extractedInfo.bloodType)
   THEN <<"bloodType">> ELSE <<>>) \o
  (IF category = "elder_support" /\ ~TruthySlot(extractedInfo.serviceType)
   THEN <<"serviceType">> ELSE <<>>) \o
  (IF category = "complaint" /\ ~TruthySlot(extractedInfo.complaintCategory)
   THEN <<"complaintCategory">> ELSE <<>>)

getMissingRequiredInfo(category, extractedInfo) ==
  (IF category = "blood_request" /\ ~TruthySlot(extractedInfo.bloodType)
   THEN <<"bloodType">> ELSE <<>>) \o
  (IF category = "elder_support" /\ ~TruthySlot(extractedInfo.serviceType)
                                 /\ ~TruthySlot(extractedInfo.supportType)
   THEN <<"serviceType">> ELSE <<>>) \o
  (IF category = "complaint" /\ ~TruthySlot(extractedInfo.complaintCategory)
   THEN <<"complaintCategory">> ELSE <<>>)

requestCategories == {"blood_request", "elder_support", "complaint"}
shouldCreateRequest(category) == category \in requestCategories

\* the fields each category has a template question for
QuestionFields ==
  [blood_request |-> {"bloodType", "unitsNeeded", "hospitalName", "relationship", "urgencyLevel"},
   elder_support |-> {"serviceType", "age", "frequency"},
   complaint |-> {"complaintCategory", "complaintLocation"}]

\* the texts of the replies are long templates; a reply is modelled by the name of
\* its template
generateFollowUpQuestion(category, missingField) ==
  IF category \in DOMAIN QuestionFields /\ missingField \in QuestionFields[category]
  THEN "Question:" \o category \o "." \o missingField
  ELSE "Question:more details"

(***************************************************************************)
(* extractLocation, buildTitleAndDescription                               *)
(***************************************************************************)
\* /(?:\bin|\bat|\bnear)\s+([A-Za-z][A-Za-z\s]{2,40})/i
LocationPrepositions == <<
  <<105,110>>,  \* "in"
  <<97,116>>,  \* "at"
  <<110,101,97,114>> >>  \* "near"
MinLocationRest == 2
MaxLocationRest == 40
locationPattern ==
  Cat(<<Alt([k \in 1..Len(LocationPrepositions) |->
               Cat(<<WordB, Lit(LocationPrepositions[k])>>)]),
        Spaces1,
        Grp(1, Cat(<<Cls(Letter),
                     Rep(Letter \cup WhiteSpace, MinLocationRest, MaxLocationRest)>>))>>)

S_Space == <<32>>  \* " "

extractLocation(text) ==
  Let(Match(locationPattern, text, TRUE), LAMBDA m :
    IF ~m.ok THEN Null
    ELSE trim(ReplaceAll(Spaces1, Group(text, m, 1), FALSE, S_Space)))

\* String(text).replace(/\s+/g, ' ').trim(), first character in upper case
toSentenceCase(text) ==
  Let(trim(ReplaceAll(Spaces1, text, FALSE, S_Space)), LAMBDA t :
    IF t = <<>> THEN <<>> ELSE <<UpperChar(t[1])>> \o Tail(t))

\* String.prototype.lastIndexOf(' ') as a 0-based index, -1 when there is none
lastIndexOfSpace(s) ==
  IF \E i \in 1..Len(s) : s[i] = 32
  THEN (CHOOSE i \in 1..Len(s) : s[i] = 32 /\ \A j \in (i + 1)..Len(s) : s[j] # 32) - 1
  ELSE -1

MinSummaryCut == 50
summarize(text, maxLen) ==
  Let(toSentenceCase(text), LAMBDA clean :
    IF Len(clean) <= maxLen THEN clean
    ELSE Let(SubSeq(clean, 1, maxLen), LAMBDA cut :
      Let(lastIndexOfSpace(cut), LAMBDA lastSpace :
        (IF lastSpace > MinSummaryCut THEN SubSeq(cut, 1, lastSpace) ELSE cut) \o <<46,46,46>>)))  \* "..."

\* the kind of an elder support request: <<words of the test, kind>>, first match wins
ElderKindTable == <<
  << <<<<109,101,100,105,99,105,110,101>>, <<116,97,98,108,101,116>>, <<112,97,114,97,99,101,116,97,109,111,108>>, <<112,114,101,115,99,114,105,112,116,105,111,110>>>>, <<77,101,100,105,99,105,110,101,32,100,101,108,105,118,101,114,121,32,110,101,101,100,101,100>> >>,  \* "medicine" "tablet" "paracetamol" "prescription" "Medicine delivery needed"
  << <<<<103,114,111,99,101,114,121>>, <<118,101,103,101,116,97,98,108,101>>, <<109,105,108,107>>, <<115,104,111,112,112,105,110,103>>>>, <<71,114,111,99,101,114,121,32,104,101,108,112,32,110,101,101,100,101,100>> >>,  \* "grocery" "vegetable" "milk" "shopping" "Grocery help needed"
  << <<<<97,112,112,111,105,110,116,109,101,110,116>>, <<104,111,115,112,105,116,97,108>>, <<99,108,105,110,105,99>>, <<99,104,101,99,107,117,112>>>>, <<77,101,100,105,99,97,108,32,97,112,112,111,105,110,116,109,101,110,116,32,104,101,108,112>> >>,  \* "appointment" "hospital" "clinic" "checkup" "Medical appointment help"
  << <<<<104,111,117,115,101>>, <<99,108,101,97,110>>, <<99,111,111,107>>, <<108,97,117,110,100,114,121>>, <<104,111,117,115,101,104,111,108,100>>>>, <<72,111,117,115,101,104,111,108,100,32,104,101,108,112,32,110,101,101,100,101,100>> >> >>  \* "house" "clean" "cook" "laundry" "household" "Household help needed"

\* value of the first entry whose regular expression /w1|w2|../i matches, or none
RECURSIVE FirstTested(_, _, _, _)
FirstTested(table, k, text, none) ==
  IF k > Len(table) THEN none
  ELSE IF Test(table[k][1], text, TRUE) THEN table[k][2]
  ELSE FirstTested(table, k + 1, text, none)

WordsTable(table) == [k \in 1..Len(table) |-> <<Words(table[k][1]), table[k][2]>>]

\* baseByCat
BaseByCat == <<
  << <<82,111,97,100,32,77,97,105,110,116,101,110,97,110,99,101>>, <<82,111,97,100,32,109,97,105,110,116,101,110,97,110,99,101,32,105,115,115,117,101>> >>,  \* "Road Maintenance" "Road maintenance issue"
  << <<87,97,116,101,114,32,83,117,112,112,108,121>>, <<87,97,116,101,114,32,115,117,112,112,108,121,32,105,115,115,117,101>> >>,  \* "Water Supply" "Water supply issue"
  << <<83,97,110,105,116,97,116,105,111,110>>, <<83,97,110,105,116,97,116,105,111,110,32,105,115,115,117,101>> >>,  \* "Sanitation" "Sanitation issue"
  << <<69,108,101,99,116,114,105,99,105,116,121>>, <<69,108,101,99,116,114,105,99,105,116,121,32,105,115,115,117,101>> >>,  \* "Electricity" "Electricity issue"
  << <<87,97,115,116,101,32,77,97,110,97,103,101,109,101,110,116>>, <<87,97,115,116,101,32,109,97,110,97,103,101,109,101,110,116,32,105,115,115,117,101>> >>,  \* "Waste Management" "Waste management issue"
  << <<80,117,98,108,105,99,32,83,97,102,101,116,121>>, <<80,117,98,108,105,99,32,115,97,102,101,116,121,32,105,115,115,117,101>> >>,  \* "Public Safety" "Public safety issue"
  << <<72,101,97,108,116,104,99,97,114,101>>, <<72,101,97,108,116,104,99,97,114,101,32,105,115,115,117,101>> >>,  \* "Healthcare" "Healthcare issue"
  << <<69,100,117,99,97,116,105,111,110>>, <<69,100,117,99,97,116,105,111,110,32,105,115,115,117,101>> >>,  \* "Education" "Education issue"
  << <<84,114,97,110,115,112,111,114,116,97,116,105,111,110>>, <<84,114,97,110,115,112,111,114,116,97,116,105,111,110,32,105,115,115,117,101>> >>,  \* "Transportation" "Transportation issue"
  << <<73,110,102,114,97,115,116,114,117,99,116,117,114,101>>, <<73,110,102,114,97,115,116,114,117,99,116,117,114,101,32,105,115,115,117,101>> >>,  \* "Infrastructure" "Infrastructure issue"
  << <<79,116,104,101,114>>, <<67,111,109,109,117,110,105,116,121,32,105,115,115,117,101>> >> >>  \* "Other" "Community issue"
S_undefined == <<117,110,100,101,102,105,110,101,100>>  \* "undefined"
\* baseByCat[c]: undefined for a category that is no key of the object
baseByCat(c) ==
  IF \E k \in 1..Len(BaseByCat) : BaseByCat[k][1] = c
  THEN BaseByCat[CHOOSE k \in 1..Len(BaseByCat) : BaseByCat[k][1] = c][2]
  ELSE Undefined

\* a value in a template string or on the left of +=
ToText(v) == IF v = Undefined THEN S_undefined ELSE v

\* the phrase overrides of a complaint title: <<regular expression, title>>
ComplaintTitleTable == <<
  << Cat(<<Lit(<<115,116,114,101,101,116>>), Spaces0, Lit(<<108,105,103,104,116>>)>>), <<83,116,114,101,101,116,32,108,105,103,104,116,115,32,110,111,116,32,119,111,114,107,105,110,103>> >>,  \* "street" "light" "Street lights not working"
  << Alt(<<Lit(<<112,111,116,104,111,108,101>>),  \* "pothole"
           Cat(<<Lit(<<104,111,108,101>>), Rep({115}, 0, 1), Spaces1, Lit(<<105,110>>), Spaces1, Lit(<<114,111,97,100>>)>>)>>),  \* "hole" "in" "road"
     <<80,111,116,104,111,108,101,115,32,111,110,32,114,111,97,100>> >>,  \* "Potholes on road"
  << Words(<<<<103,97,114,98,97,103,101>>, <<116,114,97,115,104>>, <<119,97,115,116,101>>>>), <<71,97,114,98,97,103,101,32,97,99,99,117,109,117,108,97,116,105,111,110,32,105,115,115,117,101>> >>,  \* "garbage" "trash" "waste" "Garbage accumulation issue"
  << Alt(<<Cat(<<Lit(<<119,97,116,101,114>>), Spaces0, Lit(<<108,101,97,107>>)>>),  \* "water" "leak"
           Cat(<<Lit(<<110,111>>), Spaces0, Lit(<<119,97,116,101,114>>)>>)>>),  \* "no" "water"
     <<87,97,116,101,114,32,115,117,112,112,108,121,32,112,114,111,98,108,101,109>> >>,  \* "Water supply problem"
  << Alt(<<Cat(<<Lit(<<112,111,119,101,114>>), Spaces0, Lit(<<99,117,116>>)>>),  \* "power" "cut"
           Cat(<<Lit(<<101,108,101,99,116,114,105,99,105,116,121>>), Spaces0, Lit(<<111,117,116,97,103,101>>)>>),  \* "electricity" "outage"
           Lit(<<116,114,97,110,115,102,111,114,109,101,114>>)>>),  \* "transformer"
     <<69,108,101,99,116,114,105,99,105,116,121,32,111,117,116,97,103,101,32,105,115,115,117,101>> >> >>  \* "Electricity outage issue"

S_Other == <<79,116,104,101,114>>  \* "Other"
S_blood == <<98,108,111,111,100>>  \* "blood"
S_Dash == <<32,45,32>>  \* " - "
S_In == <<32,105,110,32>>  \* " in "
S_Dot == <<46>>  \* "."
MaxOtherTitle == 80

\* what buildTitleAndDescription reads from its message alone: the location, the kind
\* of an elder support request and the phrase that overrides a complaint title
\* (Undefined when no phrase is found)
TitleParts(message) ==
  [message |-> message,
   location |-> extractLocation(message),
   kind |-> FirstTested(WordsTable(ElderKindTable), 1, message, <<69,108,100,101,114,32,115,117,112,112,111,114,116,32,110,101,101,100,101,100>>),  \* "Elder support needed"
   phrase |-> FirstTested(ComplaintTitleTable, 1, message, Undefined)]

\* location ? `${separator}${location}` : ''
LocationSuffix(location, separator) ==
  IF Truthy(location) THEN separator \o location ELSE <<>>

\* the title of a complaint: the phrase or baseByCat[c], then the location
complaintTitle(text, c) ==
  IF Truthy(text.location)
  THEN ToText(IF text.phrase # Undefined THEN text.phrase ELSE baseByCat(c))
       \o S_Dash \o text.location
  ELSE IF text.phrase # Undefined THEN text.phrase ELSE baseByCat(c)

\* buildTitleAndDescription on text = TitleParts(message)
buildTitleAndDescription(text, type, bloodType, complaintCategory) ==
  IF type = "blood"
  THEN [title |-> <<78,101,101,100,32>> \o Or(bloodType, S_blood) \o <<32,98,108,111,111,100>>  \* "Need " " blood"
                  \o LocationSuffix(text.location, S_Dash),
        description |-> <<82,101,113,117,101,115,116,32,102,111,114,32>> \o Or(bloodType, S_blood) \o <<32,98,108,111,111,100>>  \* "Request for " " blood"
                        \o LocationSuffix(text.location, S_In) \o S_Dot]
  ELSE IF type = "elder_support"
  THEN [title |-> text.kind \o LocationSuffix(text.location, S_Dash),
        description |-> <<69,108,100,101,114,32,115,117,112,112,111,114,116,32,114,101,113,117,101,115,116,58,32>> \o text.kind  \* "Elder support request: "
                        \o LocationSuffix(text.location, S_In) \o S_Dot]
  ELSE IF type = "complaint"
  THEN [title |-> complaintTitle(text, Or(complaintCategory, S_Other)),
        description |-> ToText(complaintTitle(text, Or(complaintCategory, S_Other)))
                        \o <<46,32,67,97,116,101,103,111,114,121,58,32>> \o Or(complaintCategory, S_Other) \o S_Dot]  \* ". Category: "
  ELSE [title |-> summarize(text.message, MaxOtherTitle),
        description |-> summarize(text.message, MaxOtherTitle)]

(***************************************************************************)
(* createRequestFromChatWithInfo.  The file declares the function twice;   *)
(* the later declaration (with the blood type validation) is the one bound *)
(* to the name when the routes run.                                        *)
(***************************************************************************)
\* the user document User.findById returns
User == [name |-> <<65,115,104,97,32,82,97,111>>, phone |-> <<57,48,48,48,48,48,48,48,48,49>>, email |-> <<97,115,104,97,64,101,120,97,109,112,108,101,46,99,111,109>>]  \* "Asha Rao" "9000000001" "asha@example.com"

DefaultAddress == <<80,111,116,116,105,32,83,114,105,114,97,109,117,108,117,32,67,111,108,108,101,103,101,32,82,111,97,100,44,32,86,105,110,99,104,105,112,101,116,97>>  \* "Potti Sriramulu College Road, Vinchipeta"

EntityFields == {"type", "priority", "status", "address", "bloodType", "urgencyLevel",
                 "unitsNeeded", "hospitalName", "patientName", "relationship",
                 "medicalCondition", "requiredDate", "additionalNotes", "title",
                 "description", "serviceType", "elderName", "age", "supportType",
                 "frequency", "timeSlot", "specialRequirements", "dueDate", "category",
                 "severity", "source"}

\* no document: the fields that hold a name of the schema are '', the others undefined
NoEntity == [f \in EntityFields |->
               IF f \in {"type", "status", "source"} THEN "" ELSE Undefined]

\* the outcome of createRequestFromChatWithInfo: an error thrown before Request.save,
\* or the requestData handed to Request.save
Thrown(error) == [threw |-> TRUE, error |-> error, data |-> <<>>]
Returned(data) == [threw |-> FALSE, error |-> "", data |-> data]

\* priority === 'urgent' ? 'urgent' : (priority === 'high' ? 'high' : 'medium')
mappedPriority(priority) ==
  IF priority = S_urgent THEN S_urgent ELSE IF priority = S_high THEN S_high ELSE S_medium

\* category === 'blood_request' ? 'blood' : category
requestTypeOf(category) == IF category = "blood_request" THEN "blood" ELSE category

\* the fields every requestData has
commonData(category, priority) ==
  [NoEntity EXCEPT
     !.type = requestTypeOf(category),
     !.priority = mappedPriority(priority),
     !.status = "pending",
     !.address = DefaultAddress,
     !.source = "text_chat"]

\* the message as the request branches read it: translateToEnglish(message), and the
\* parts buildTitleAndDescription reads from that text
EnglishText(message) == TitleParts(translateToEnglish(message))

\* requestData; text = EnglishText(message), built = buildTitleAndDescription(..)
typedData(text, category, priority, extractedInfo, common, built) ==
  IF requestTypeOf(category) = "blood" THEN
    [common EXCEPT
       !.bloodType = extractedInfo.bloodType,
       !.urgencyLevel = OrSlot(extractedInfo.urgencyLevel,
                               IF priority = S_urgent THEN S_urgent ELSE S_high),
       !.unitsNeeded = OrSlot(extractedInfo.unitsNeeded, Num(1)),
       !.hospitalName = OrSlot(extractedInfo.hospitalName, <<84,111,32,98,101,32,99,111,110,102,105,114,109,101,100>>),  \* "To be confirmed"
       !.patientName = OrSlot(extractedInfo.patientName, User.name),
       !.relationship = OrSlot(extractedInfo.relationship, <<83,101,108,102>>),  \* "Self"
       !.medicalCondition = text.message,
       !.requiredDate = OrSlot(extractedInfo.requiredDate, DateIn(0)),
       !.additionalNotes = text.message,
       !.title = built.title,
       !.description = built.description]
  ELSE IF requestTypeOf(category) = "elder_support" THEN
    [common EXCEPT
       !.serviceType = OrSlot(extractedInfo.serviceType, S_Other),
       !.elderName = OrSlot(extractedInfo.elderName, User.name),
       !.age = OrSlot(extractedInfo.age, <<78,111,116,32,115,112,101,99,105,102,105,101,100>>),  \* "Not specified"
       !.supportType = OrSlot(extractedInfo.supportType, ArrayOf(<<111,116,104,101,114>>)),  \* "other"
       !.frequency = OrSlot(extractedInfo.frequency, <<111,110,101,45,116,105,109,101>>),  \* "one-time"
       !.timeSlot = <<102,108,101,120,105,98,108,101>>,  \* "flexible"
       !.specialRequirements = text.message,
       !.dueDate = DateIn(1),
       !.title = built.title,
       !.description = built.description]
  ELSE IF requestTypeOf(category) = "complaint" THEN
    [common EXCEPT
       !.category = OrSlot(extractedInfo.complaintCategory, S_Other),
       !.severity = IF priority = S_urgent THEN S_high ELSE S_medium,
       !.title = built.title,
       !.description = built.description]
  ELSE common

requestData(text, category, priority, extractedInfo) ==
  typedData(text, category, priority, extractedInfo, commonData(category, priority),
            buildTitleAndDescription(text, requestTypeOf(category), extractedInfo.bloodType,
                                     OrSlot(extractedInfo.complaintCategory, S_Other)))

\* createRequestFromChatWithInfo without the blood type validation
createRequestWithoutValidation(userFound, text, category, priority, extractedInfo) ==
  IF ~userFound THEN Thrown("User not found")
  ELSE Returned(requestData(text, category, priority, extractedInfo))

\* userFound: User.findById returned a document; text = EnglishText(message)
createRequestFromChatWithInfo(userFound, text, category, priority, extractedInfo) ==
  IF ~userFound THEN Thrown("User not found")
  ELSE IF category = "blood_request" /\ ~TruthySlot(extractedInfo.bloodType)
  THEN Thrown("Cannot create blood request without blood type")
  ELSE Returned(requestData(text, category, priority, extractedInfo))

\* the reply texts are long templates; a reply is modelled by the name of its template
generateSuccessMessage(category) ==
  IF category \in requestCategories THEN "Success:" \o category ELSE "Success:request"

(***************************************************************************)
(* generateGeneralResponse, generateFallbackResponse                       *)
(***************************************************************************)
\* /^(hi|hello|hey|good morning|good afternoon|good evening|namaste)$/i
Greetings == {
  <<104,105>>,  \* "hi"
  <<104,101,108,108,111>>,  \* "hello"
  <<104,101,121>>,  \* "hey"
  <<103,111,111,100,32,109,111,114,110,105,110,103>>,  \* "good morning"
  <<103,111,111,100,32,97,102,116,101,114,110,111,111,110>>,  \* "good afternoon"
  <<103,111,111,100,32,101,118,101,110,105,110,103>>,  \* "good evening"
  <<110,97,109,97,115,116,101>> }  \* "namaste"

\* the tests after the greeting: <<words of the regular expression, template>>
GeneralTable == <<
  << <<<<104,111,119,32,97,114,101,32,121,111,117>>, <<104,111,119,32,100,111,32,121,111,117,32,100,111>>>>, "General:how are you" >>,  \* "how are you" "how do you do"
  << <<<<116,104,97,110,107,32,121,111,117>>, <<116,104,97,110,107,115>>, <<116,104,120>>>>, "General:thanks" >>,  \* "thank you" "thanks" "thx"
  << <<<<119,104,97,116,32,99,97,110,32,121,111,117,32,100,111>>, <<119,104,97,116,32,100,111,32,121,111,117,32,100,111>>, <<104,101,108,112,32,109,101>>, <<99,97,112,97,98,105,108,105,116,105,101,115>>>>,  \* "what can you do" "what do you do" "help me" "capabilities"
     "General:capabilities" >>,
  << <<<<119,104,97,116,32,105,115,32,115,101,118,97,108,105,110,107>>, <<97,98,111,117,116,32,115,101,118,97,108,105,110,107>>, <<115,101,118,97,108,105,110,107>>>>, "General:about" >> >>  \* "what is sevalink" "about sevalink" "sevalink"
EducationalWords == <<
  <<119,104,97,116,32,105,115>>,  \* "what is"
  <<116,101,108,108,32,109,101,32,97,98,111,117,116>>,  \* "tell me about"
  <<101,120,112,108,97,105,110>> >>  \* "explain"
EducationalTable == <<
  << <<<<109,105,116,111,99,104,111,110,100,114,105,97>>, <<109,105,116,99,104,111,110,100,114,105,97>>>>, "General:mitochondria" >>,  \* "mitochondria" "mitchondria"
  << <<<<114,98,99>>, <<114,101,100,32,98,108,111,111,100,32,99,101,108,108,115>>>>, "General:rbc" >> >>  \* "rbc" "red blood cells"

generateGeneralResponse(message) ==
  Let(trim(toLowerCase(message)), LAMBDA lowerMessage :
    IF lowerMessage \in Greetings THEN "General:greeting"
    ELSE Let(FirstTested(WordsTable(GeneralTable), 1, lowerMessage, ""), LAMBDA reply :
      IF reply # "" THEN reply
      ELSE IF Test(Words(EducationalWords), lowerMessage, TRUE)
      THEN FirstTested(WordsTable(EducationalTable), 1, lowerMessage,
                       "General:community services only")
      ELSE "General:default"))

\* the categories the table of fallback replies has an entry for; each of the four
\* request entries says that the request has been created
FallbackCategories == {"blood_request", "elder_support", "complaint", "emergency"}
generateFallbackResponse(category, message) ==
  IF category \in FallbackCategories THEN "Fallback:created " \o category
  ELSE generateGeneralResponse(message)

(***************************************************************************)
(* The collaborators: geminiVoiceService, User, Request and Chat.  Their   *)
(* code is outside the repository files modelled here; each call returns   *)
(* one of the results below or throws.                                     *)
(***************************************************************************)
Categories == {"blood_request", "elder_support", "complaint", "emergency", "general_inquiry"}

\* processTextWithGemini: {success, response, category, priority, usingFallback}
NoClassification ==
  [kind |-> "not called", category |-> "", priority |-> Undefined, response |-> "",
   usingFallback |-> FALSE]
ClassifyThrows == [NoClassification EXCEPT !.kind = "throws"]
ClassifyResults ==
  {[NoClassification EXCEPT !.kind = "returns", !.category = c, !.priority = S_high,
                            !.response = "AI:answer"] : c \in Categories}
  \cup {[NoClassification EXCEPT !.kind = "returns", !.usingFallback = TRUE]}

\* extractInformationWithGemini:
\*   {success, usingFallback, extractedInfo, missingRequired, needsMoreInfo}
NoExtraction ==
  [kind |-> "not called", success |-> FALSE, usingFallback |-> FALSE,
   extractedInfo |-> EmptySlots, missingRequired |-> <<>>, needsMoreInfo |-> FALSE]
ExtractThrows == [NoExtraction EXCEPT !.kind = "throws"]
ExtractFails == [NoExtraction EXCEPT !.kind = "returns"]
ExtractFallsBack ==
  [NoExtraction EXCEPT !.kind = "returns", !.success = TRUE, !.usingFallback = TRUE,
                       !.extractedInfo = [EmptySlots EXCEPT !.bloodType = <<65,45>>]]  \* "A-"
\* the slot maps an accepted extraction may carry
AISlotMaps ==
  {[EmptySlots EXCEPT !.bloodType = Null, !.urgencyLevel = <<109,101,100,105,117,109>>],  \* "medium"
   [EmptySlots EXCEPT !.bloodType = <<66,43>>, !.location = <<66,101,110,122,32,67,105,114,99,108,101>>],  \* "B+" "Benz Circle"
   [EmptySlots EXCEPT !.bloodType = <<79,45>>, !.urgencyLevel = <<109,101,100,105,117,109>>],  \* "O-" "medium"
   [EmptySlots EXCEPT !.serviceType = <<67,111,109,112,97,110,105,111,110,115,104,105,112>>,  \* "Companionship"
                      !.complaintCategory = <<69,108,101,99,116,114,105,99,105,116,121>>]}  \* "Electricity"
AIMissingLists == {<<>>, <<"bloodType">>}
ExtractAccepted ==
  {[NoExtraction EXCEPT !.kind = "returns", !.success = TRUE, !.extractedInfo = info,
                        !.missingRequired = missing, !.needsMoreInfo = more] :
     info \in AISlotMaps, missing \in AIMissingLists, more \in BOOLEAN}

\* generateFollowUpQuestion of the service: {question, success, usingFallback}
NoQuestion == [kind |-> "not called", success |-> FALSE, usingFallback |-> FALSE, question |-> ""]
QuestionThrows == [NoQuestion EXCEPT !.kind = "throws"]
QuestionFails == [NoQuestion EXCEPT !.kind = "returns"]
QuestionResults ==
  {[NoQuestion EXCEPT !.kind = "returns", !.success = TRUE, !.question = "AI:question"],
   [NoQuestion EXCEPT !.kind = "returns", !.success = TRUE, !.usingFallback = TRUE,
                      !.question = "AI:template question"]}

\* processTextWithGemini called with the confirmation prompt: {response}
NoConfirmation == [kind |-> "not called", response |-> ""]
ConfirmThrows == [NoConfirmation EXCEPT !.kind = "throws"]
ConfirmResults ==
  {[NoConfirmation EXCEPT !.kind = "returns", !.response = "AI:confirmation"],
   [NoConfirmation EXCEPT !.kind = "returns"]}

\* what the collaborators may do in a run: env.ai = "unavailable" when the AI service
\* fails at every call (the classification call throws, the extraction and question
\* calls report failure, the confirmation call throws), env.faults when User, Request
\* and Chat may fail
ClassifyBehaviours ==
  IF env.ai = "unavailable" THEN {ClassifyThrows} ELSE {ClassifyThrows} \cup ClassifyResults
ExtractBehaviours ==
  IF env.ai = "unavailable" THEN {ExtractFails}
  ELSE {ExtractThrows, ExtractFails, ExtractFallsBack} \cup ExtractAccepted
QuestionBehaviours ==
  IF env.ai = "unavailable" THEN {QuestionFails}
  ELSE {QuestionThrows, QuestionFails} \cup QuestionResults
ConfirmBehaviours ==
  IF env.ai = "unavailable" THEN {ConfirmThrows} ELSE {ConfirmThrows} \cup ConfirmResults
Succeeds == IF env.faults THEN BOOLEAN ELSE {TRUE}

(***************************************************************************)
(* The state of the routes                                                 *)
(***************************************************************************)
\* the _id of a saved document, by its number in the collection
ObjectId(n) == <<-6, n>>

NoChat == [saved |-> FALSE]

SaveErrorMessage ==
  "I understood your request, but encountered an error saving it. Please try again."

NoData ==
  [category |-> "", priority |-> Undefined, extractedInfo |-> EmptySlots, missingInfo |-> <<>>,
   needsMoreInfo |-> FALSE, geminiResponse |-> "", detectedLanguage |-> "",
   createdRequestId |-> Null, usingFallback |-> FALSE, geminiExtraction |-> FALSE]
NoResponse == [status |-> 0, success |-> FALSE, message |-> "", data |-> NoData]

\* res.status(400).json(..) and res.status(500).json(..)
BadRequest == [NoResponse EXCEPT !.status = 400, !.message = "Message text is required"]
ServerError(route) ==
  [NoResponse EXCEPT !.status = 500,
                     !.message = IF route = "text" THEN "Error processing text message"
                                 ELSE "Error processing voice request"]

\* what the helpers returned for the message of a turn: extractUrgency, and
\* extractRequestInfo for each category with an empty conversationContext
NoHelperResults == [urgency |-> Null, slots |-> [c \in requestCategories |-> EmptySlots]]

\* the request body, what the helpers returned for its message and what each
\* collaborator did in the turn
NoRequest ==
  [route |-> "", message |-> <<>>, language |-> "", conversationContext |-> EmptySlots,
   helpers |-> NoHelperResults,
   classify |-> NoClassification, extract |-> NoExtraction, question |-> NoQuestion,
   confirm |-> NoConfirmation, userFound |-> TRUE, requestSaved |-> TRUE,
   chatSaved |-> TRUE, marked |-> TRUE]

\* the state after the handler has answered a turn
Answer(request, response, entity, chat) ==
  /\ prev' = [req |-> req, resp |-> resp]
  /\ req' = request
  /\ resp' = response
  /\ created' = entity
  /\ chatLog' = chat
  /\ nRequests' = IF entity.type = "" THEN nRequests ELSE nRequests + 1
  /\ turns' = turns + 1
  /\ UNCHANGED <<input, op, output, env, paginationVars>>

(***************************************************************************)
(* The handlers of POST /text and POST /voice-text.  The two handlers are  *)
(* the same code but for the language detection and the missing urgency    *)
(* line of /voice-text, so one definition with the route as a parameter    *)
(* models both.  A local of the handler is bound once, as the code binds  *)
(* it: \E x \in {v} : A(x) is A with x standing for the value v.           *)
(***************************************************************************)
\* what the helpers return for the message of a turn.  The helpers are pure and every
\* call of the handler passes them the same trimmedMessage, so a turn binds their
\* values once: slots[c] is what extractRequestInfo reads from the message for the
\* category c, text what createRequestFromChatWithInfo reads from it
Heuristic(trimmedMessage) ==
  [category |-> categorizeRequest(trimmedMessage),
   priority |-> determinePriority(trimmedMessage),
   detectedLanguage |-> detectLanguageFromText(trimmedMessage),
   urgency |-> extractUrgency(trimmedMessage),
   slots |-> [c \in requestCategories |-> extractRequestInfo(trimmedMessage, c, EmptySlots)],
   text |-> EnglishText(trimmedMessage)]

\* geminiResult after the try / catch around processTextWithGemini
Classified(trimmedMessage, heuristic, classify) ==
  IF classify.kind = "throws"
  THEN [kind |-> "caught", category |-> heuristic.category, priority |-> heuristic.priority,
        response |-> generateFallbackResponse(heuristic.category, trimmedMessage),
        usingFallback |-> TRUE]
  ELSE classify

finalCategoryOf(geminiResult, heuristic) ==
  IF geminiResult.category # "" /\ geminiResult.category # "general_inquiry"
  THEN geminiResult.category
  ELSE heuristic.category

\* if (!extractedInfo.urgencyLevel) extractedInfo.urgencyLevel = extractUrgency(..), a
\* line of the /text handler only
WithUrgency(route, heuristic, info) ==
  IF route = "text" /\ ~TruthySlot(info.urgencyLevel)
  THEN [info EXCEPT !.urgencyLevel = heuristic.urgency]
  ELSE info

\* the extraction block accepting every extraction that reports success, its own
\* fallback included
ExtractedOnSuccessAlone(route, heuristic, finalCategory, conversationContext, extract) ==
  IF extract.success
  THEN [extractedInfo |-> Spread(conversationContext, extract.extractedInfo),
        missingInfo |-> extract.missingRequired,
        needsMoreInfo |-> extract.needsMoreInfo]
  ELSE Let(WithUrgency(route, heuristic,
                       Spread(conversationContext, heuristic.slots[finalCategory])),
           LAMBDA extractedInfo :
             Let(getMissingRequiredInfo(finalCategory, extractedInfo), LAMBDA missingInfo :
               [extractedInfo |-> extractedInfo, missingInfo |-> missingInfo,
                needsMoreInfo |-> missingInfo # <<>>]))

\* extractedInfo, missingInfo and needsMoreInfo after the extraction block
Extracted(route, heuristic, finalCategory, conversationContext, extract) ==
  IF extract.success /\ ~extract.usingFallback
  THEN [extractedInfo |-> Spread(conversationContext, extract.extractedInfo),
        missingInfo |-> extract.missingRequired,
        needsMoreInfo |-> extract.needsMoreInfo]
  ELSE Let(WithUrgency(route, heuristic,
                       Spread(conversationContext, heuristic.slots[finalCategory])),
           LAMBDA extractedInfo :
             Let(getMissingRequiredInfo(finalCategory, extractedInfo), LAMBDA missingInfo :
               [extractedInfo |-> extractedInfo, missingInfo |-> missingInfo,
                needsMoreInfo |-> missingInfo # <<>>]))

\* res.json({success: true, message: .., data: responseData}); t holds the locals of
\* the handler
ResponseOf(t, responseMessage, createdRequestId) ==
  [status |-> 200, success |-> TRUE,
   message |-> IF createdRequestId # Null THEN "Request created successfully"
               ELSE IF t.needsMoreInfo THEN "Need more information"
               ELSE "Message processed",
   data |-> [category |-> t.finalCategory, priority |-> t.finalPriority,
             extractedInfo |-> t.extractedInfo, missingInfo |-> t.missingInfo,
             needsMoreInfo |-> t.needsMoreInfo, geminiResponse |-> responseMessage,
             detectedLanguage |-> t.detectedLanguage,
             createdRequestId |-> createdRequestId,
             usingFallback |-> t.geminiResult.usingFallback,
             geminiExtraction |-> t.geminiExtraction]]

\* the Chat document saved without the pending context in its aiMetadata
ChatDocumentWithoutContext(t, responseMessage, pending, relatedRequest) ==
  [saved |-> TRUE, message |-> t.trimmedMessage, response |-> responseMessage,
   category |-> t.finalCategory, priority |-> t.finalPriority,
   messageType |-> IF t.route = "text" THEN "text" ELSE "voice",
   usingFallback |-> t.geminiResult.usingFallback, pendingRequest |-> pending,
   extractedInfo |-> EmptySlots,
   missingInfo |-> IF pending THEN t.missingInfo ELSE <<>>,
   relatedRequest |-> relatedRequest]

\* the Chat document saveChatMessage saves
ChatDocument(t, responseMessage, pending, relatedRequest) ==
  [saved |-> TRUE, message |-> t.trimmedMessage, response |-> responseMessage,
   category |-> t.finalCategory, priority |-> t.finalPriority,
   messageType |-> IF t.route = "text" THEN "text" ELSE "voice",
   usingFallback |-> t.geminiResult.usingFallback, pendingRequest |-> pending,
   extractedInfo |-> IF pending THEN t.extractedInfo ELSE EmptySlots,
   missingInfo |-> IF pending THEN t.missingInfo ELSE <<>>,
   relatedRequest |-> relatedRequest]

\* the branch that asks for the first missing field
FollowUp(request, t) ==
  \E question \in QuestionBehaviours :
    IF question.kind = "throws"
    THEN Answer([request EXCEPT !.question = question], ServerError(t.route), NoEntity, NoChat)
    ELSE \E chatSaved \in Succeeds :
      LET responseMessage ==
            IF question.success /\ ~question.usingFallback THEN question.question
            ELSE generateFollowUpQuestion(t.finalCategory, t.missingInfo[1])
          asked == [request EXCEPT !.question = question, !.chatSaved = chatSaved]
      IN IF chatSaved
         THEN Answer(asked, ResponseOf(t, responseMessage, Null), NoEntity,
                     ChatDocument(t, responseMessage, TRUE, Null))
         ELSE Answer(asked, ServerError(t.route), NoEntity, NoChat)

\* the create branch without its try / catch: an error of createRequestFromChatWithInfo
\* reaches the catch of the handler
FinalizeWithoutCatch(request, t) ==
  \E userFound \in Succeeds :
    \E outcome \in {createRequestFromChatWithInfo(userFound, t.text, t.finalCategory,
                                                  t.finalPriority, t.extractedInfo)} :
      IF outcome.threw
      THEN Answer([request EXCEPT !.userFound = userFound],
                  ServerError(t.route), NoEntity, NoChat)
      ELSE \E requestSaved \in Succeeds :
        IF ~requestSaved
        THEN Answer([request EXCEPT !.requestSaved = FALSE],
                    ServerError(t.route), NoEntity, NoChat)
        ELSE \E confirm \in ConfirmBehaviours, chatSaved \in Succeeds :
          LET id == ObjectId(nRequests + 1)
              responseMessage ==
                IF confirm.kind = "returns" /\ confirm.response # "" THEN confirm.response
                ELSE generateSuccessMessage(t.finalCategory)
              confirmed == [request EXCEPT !.confirm = confirm, !.chatSaved = chatSaved]
          IN IF ~chatSaved
             THEN Answer(confirmed, ResponseOf(t, SaveErrorMessage, id), outcome.data, NoChat)
             ELSE \E marked \in Succeeds :
               Answer([confirmed EXCEPT !.marked = marked],
                      ResponseOf(t, IF marked THEN responseMessage ELSE SaveErrorMessage, id),
                      outcome.data,
                      ChatDocument(t, responseMessage, FALSE, IF marked THEN id ELSE Null))

\* the branch that creates the request
Finalize(request, t) ==
  \E userFound \in Succeeds :
    \E outcome \in {createRequestFromChatWithInfo(userFound, t.text, t.finalCategory,
                                                  t.finalPriority, t.extractedInfo)} :
      IF outcome.threw
      THEN Answer([request EXCEPT !.userFound = userFound],
                  ResponseOf(t, SaveErrorMessage, Null), NoEntity, NoChat)
      ELSE \E requestSaved \in Succeeds :
        IF ~requestSaved
        THEN Answer([request EXCEPT !.requestSaved = FALSE],
                    ResponseOf(t, SaveErrorMessage, Null), NoEntity, NoChat)
        ELSE \E confirm \in ConfirmBehaviours, chatSaved \in Succeeds :
          LET id == ObjectId(nRequests + 1)
              responseMessage ==
                IF confirm.kind = "returns" /\ confirm.response # "" THEN confirm.response
                ELSE generateSuccessMessage(t.finalCategory)
              confirmed == [request EXCEPT !.confirm = confirm, !.chatSaved = chatSaved]
          IN IF ~chatSaved
             THEN Answer(confirmed, ResponseOf(t, SaveErrorMessage, id), outcome.data, NoChat)
             ELSE \E marked \in Succeeds :
               Answer([confirmed EXCEPT !.marked = marked],
                      ResponseOf(t, IF marked THEN responseMessage ELSE SaveErrorMessage, id),
                      outcome.data,
                      ChatDocument(t, responseMessage, FALSE, IF marked THEN id ELSE Null))

\* the branch of a message that is no request
GeneralReply(request, t) ==
  \E chatSaved \in Succeeds :
    LET responseMessage ==
          IF t.geminiResult.response # "" THEN t.geminiResult.response
          ELSE "How can I help you today?"
    IN IF chatSaved
       THEN Answer([request EXCEPT !.chatSaved = TRUE], ResponseOf(t, responseMessage, Null),
                   NoEntity, ChatDocument(t, responseMessage, FALSE, Null))
       ELSE Answer([request EXCEPT !.chatSaved = FALSE], ServerError(t.route), NoEntity, NoChat)

\* the locals of the handler once the message is classified
Locals(route, trimmedMessage, language, heuristic, geminiResult) ==
  [route |-> route, trimmedMessage |-> trimmedMessage, text |-> heuristic.text,
   detectedLanguage |->
     IF route = "text" THEN ""
     ELSE IF language = "auto" \/ language = "" THEN heuristic.detectedLanguage
     ELSE language,
   geminiResult |-> geminiResult,
   finalCategory |-> finalCategoryOf(geminiResult, heuristic),
   finalPriority |-> Or(geminiResult.priority, heuristic.priority),
   extractedInfo |-> EmptySlots, missingInfo |-> <<>>, needsMoreInfo |-> FALSE,
   geminiExtraction |-> FALSE]

\* the handler applied to a body {message, language, conversationContext}
Handle(route, trimmedMessage, heuristic, body) ==
  \E classify \in ClassifyBehaviours :
    \E locals \in {Locals(route, trimmedMessage, body.language, heuristic,
                          Classified(trimmedMessage, heuristic, classify))} :
      IF ~shouldCreateRequest(locals.finalCategory)
      THEN GeneralReply([body EXCEPT !.classify = classify], locals)
      ELSE \E extract \in ExtractBehaviours :
        \E e \in {Extracted(route, heuristic, locals.finalCategory,
                            body.conversationContext, extract)} :
          LET t == [locals EXCEPT !.extractedInfo = e.extractedInfo,
                                  !.missingInfo = e.missingInfo,
                                  !.needsMoreInfo = e.needsMoreInfo,
                                  !.geminiExtraction = extract.success]
              extracted == [body EXCEPT !.classify = classify, !.extract = extract]
          IN IF extract.kind = "throws"
             THEN Answer(extracted, ServerError(route), NoEntity, NoChat)
             ELSE IF t.needsMoreInfo /\ t.missingInfo # <<>>
             THEN FollowUp(extracted, t)
             ELSE Finalize(extracted, t)

\* the handler with the test of the message made before trimming: if (!message)
TurnTestingUntrimmed(route, message, languages, contexts) ==
  \E trimmedMessage \in {trim(message)} :
    IF ~Truthy(message)
    THEN \E language \in languages, conversationContext \in contexts :
           Answer([NoRequest EXCEPT !.route = route, !.message = message,
                                    !.language = language,
                                    !.conversationContext = conversationContext],
                  BadRequest, NoEntity, NoChat)
    ELSE \E heuristic \in {Heuristic(trimmedMessage)} :
           \E language \in languages, conversationContext \in contexts :
             Handle(route, trimmedMessage, heuristic,
                    [NoRequest EXCEPT !.route = route, !.message = message,
                                      !.language = language,
                                      !.conversationContext = conversationContext,
                                      !.helpers = [urgency |-> heuristic.urgency,
                                                   slots |-> heuristic.slots]])

\* a turn of a route on a message, with the language and the conversationContext of the
\* body drawn from the given sets
Turn(route, message, languages, contexts) ==
  \E trimmedMessage \in {trim(message)} :
    IF ~Truthy(message) \/ Len(trimmedMessage) = 0
    THEN \E language \in languages, conversationContext \in contexts :
           Answer([NoRequest EXCEPT !.route = route, !.message = message,
                                    !.language = language,
                                    !.conversationContext = conversationContext],
                  BadRequest, NoEntity, NoChat)
    ELSE \E heuristic \in {Heuristic(trimmedMessage)} :
           \E language \in languages, conversationContext \in contexts :
             Handle(route, trimmedMessage, heuristic,
                    [NoRequest EXCEPT !.route = route, !.message = message,
                                      !.language = language,
                                      !.conversationContext = conversationContext,
                                      !.helpers = [urgency |-> heuristic.urgency,
                                                   slots |-> heuristic.slots]])

(***************************************************************************)
(* The routes as a state machine                                           *)
(***************************************************************************)
Messages == {
  Undefined,
  <<>>,
  <<32,32,32>>,  \* "   "
  <<104,101,108,108,111>>,  \* "hello"
  <<73,32,110,101,101,100,32,98,108,111,111,100>>,  \* "I need blood"
  <<65,66,32,110,101,103,97,116,105,118,101>>,  \* "AB negative"
  <<73,32,110,101,101,100,32,79,32,112,111,115,105,116,105,118,101,32,98,108,111,111,100,32,117,114,103,101,110,116,108,121>>,  \* "I need O positive blood urgently"
  <<73,32,110,101,101,100,32,79,32,112,111,115,105,116,105,118,101,32,98,108,111,111,100,32,97,115,97,112>>,  \* "I need O positive blood asap"
  <<115,116,114,101,101,116,32,108,105,103,104,116,115,32,110,111,116,32,119,111,114,107,105,110,103,32,110,101,97,114,32,77,71,32,82,111,97,100>>,  \* "street lights not working near MG Road"
  <<83,116,114,101,101,116,32,108,105,103,104,116,32,98,114,111,107,101,110,32,110,101,97,114,32,71,97,110,100,104,105,32,78,97,103,97,114>>,  \* "Street light broken near Gandhi Nagar"
  <<116,104,101,114,101,32,105,115,32,97,32,112,114,111,98,108,101,109>>,  \* "there is a problem"
  <<109,121,32,103,114,97,110,100,109,111,116,104,101,114,32,110,101,101,100,115,32,99,97,114,101>>,  \* "my grandmother needs care"
  <<104,101,108,112,32,109,101,32,116,104,105,115,32,105,115,32,117,114,103,101,110,116>>,  \* "help me this is urgent"
  <<2326,2370,2344,32,2330,2366,2361,2367,2319>> }  \* "खून चाहिए"

\* the messages of a conversation
ConversationMessages == {
  <<32,32,32>>,  \* "   "
  <<104,101,108,108,111>>,  \* "hello"
  <<73,32,110,101,101,100,32,98,108,111,111,100>>,  \* "I need blood"
  <<65,66,32,110,101,103,97,116,105,118,101>>,  \* "AB negative"
  <<73,32,110,101,101,100,32,65,66,32,110,101,103,97,116,105,118,101,32,98,108,111,111,100>> }  \* "I need AB negative blood"

\* the conversationContext a client sends: none, or slots of its own
ClientContexts ==
  {EmptySlots,
   [EmptySlots EXCEPT !.bloodType = <<79,45>>, !.hospitalName = <<67,105,116,121,32,72,111,115,112,105,116,97,108>>,  \* "O-" "City Hospital"
                       !.location = <<66,101,110,122,32,67,105,114,99,108,101>>]}  \* "Benz Circle"
VoiceLanguages == {"en", "auto"}

\* a client that echoes the extractedInfo of the last response, as the chat page does
ConversationContexts ==
  IF resp.status = 200 THEN {EmptySlots, resp.data.extractedInfo} ELSE {EmptySlots}

TextTurn ==
  /\ turns < env.turns
  /\ \E message \in (IF env.echo THEN ConversationMessages ELSE Messages) :
       Turn("text", message, {"en"}, IF env.echo THEN ConversationContexts ELSE ClientContexts)

VoiceTextTurn ==
  /\ turns < env.turns
  /\ \E message \in (IF env.echo THEN ConversationMessages ELSE Messages) :
       Turn("voice-text", message, VoiceLanguages,
            IF env.echo THEN ConversationContexts ELSE ClientContexts)

MaxTurns == 2

NoHarness == input = <<>> /\ op = "init" /\ output = Null

\* if (totalPages <= 1) return null: no control and no entry is shown
NothingRendered ==
  [shown |-> FALSE, pages |-> <<>>, previousDisabled |-> TRUE, nextDisabled |-> TRUE]

\* no Pagination component is mounted
NoPagination ==
  /\ currentPage = 1 /\ totalPages = 0
  /\ rendered = NothingRendered /\ lastPageChange = Undefined

InitRoutes ==
  /\ NoHarness /\ NoPagination
  /\ turns = 0
  /\ req = NoRequest /\ resp = NoResponse
  /\ created = NoEntity /\ chatLog = NoChat
  /\ nRequests = 0
  /\ prev = [req |-> NoRequest, resp |-> NoResponse]

\* one turn, any behaviour of the collaborators
Init == InitRoutes /\ env = [ai |-> "any", faults |-> TRUE, echo |-> FALSE, turns |-> 1]
Next == TextTurn \/ VoiceTextTurn
Spec == Init /\ [][Next]_vars

\* a conversation with the AI service unavailable and the database healthy
InitConversation ==
  InitRoutes /\ env = [ai |-> "unavailable", faults |-> FALSE, echo |-> TRUE, turns |-> MaxTurns]
SpecConversation == InitConversation /\ [][Next]_vars

(***************************************************************************)
(* The helpers applied to bounded sets of inputs                           *)
(***************************************************************************)
NoTurns ==
  /\ turns = 0
  /\ req = NoRequest /\ resp = NoResponse
  /\ created = NoEntity /\ chatLog = NoChat
  /\ nRequests = 0
  /\ prev = [req |-> NoRequest, resp |-> NoResponse]
  /\ env = [ai |-> "any", faults |-> FALSE, echo |-> FALSE, turns |-> 0]
NoRoutes == NoTurns /\ NoPagination

routeVars == <<turns, req, resp, created, chatLog, nRequests, prev, env>>

\* a helper applied to the input; op names the helper, output is what it returned
ExtractBloodType ==
  /\ op = "init"
  /\ op' = "extractBloodType"
  /\ output' = extractBloodType(input.text)
  /\ UNCHANGED <<input, routeVars, paginationVars>>

DetectLanguage ==
  /\ op = "init"
  /\ op' = "detectLanguageFromText"
  /\ output' = detectLanguageFromText(input.text)
  /\ UNCHANGED <<input, routeVars, paginationVars>>

Translate ==
  /\ op = "init"
  /\ op' = "translateToEnglish"
  /\ output' = translateToEnglish(input.text)
  /\ UNCHANGED <<input, routeVars, paginationVars>>

\* translateToEnglish applied to its own output; the state keeps both texts
TranslateAgain ==
  /\ op = "translateToEnglish"
  /\ op' = "translateToEnglish twice"
  /\ output' = <<output, translateToEnglish(output)>>
  /\ UNCHANGED <<input, routeVars, paginationVars>>

CategorizeRequest ==
  /\ op = "init"
  /\ op' = "categorizeRequest"
  /\ output' = categorizeRequest(input.text)
  /\ UNCHANGED <<input, routeVars, paginationVars>>

GetMissingRequiredInfo ==
  /\ op = "init"
  /\ op' = "getMissingRequiredInfo"
  /\ output' = getMissingRequiredInfo(input.category, input.extractedInfo)
  /\ UNCHANGED <<input, routeVars, paginationVars>>

\* texts that carry a blood type in one of the forms, and the type they carry
Signs == <<
  <<43>>,  \* "+"
  <<45>> >>  \* "-"
LatinRh == <<
  <<112,111,115,105,116,105,118,101>>,  \* "positive"
  <<110,101,103,97,116,105,118,101>> >>  \* "negative"
BloodWords == <<
  <<32,98,108,111,111,100>>,  \* " blood"
  <<32,2326,2370,2344>>,  \* " खून"
  <<32,3120,3093,3149,3108,3074>> >>  \* " రక్తం"
Forms == {"compact", "compact lower", "word", "hindi", "telugu"}
FormText(form, g, r) ==
  CASE form = "compact" -> LatinGroups[g] \o Signs[r]
    [] form = "compact lower" -> toLowerCase(LatinGroups[g]) \o Signs[r]
    [] form = "word" -> LatinGroups[g] \o S_Space \o LatinRh[r]
    [] form = "hindi" -> HindiGroups[g] \o S_Space \o HindiRh[r] \o BloodWords[2]
    [] form = "telugu" -> TeluguGroups[g] \o S_Space \o TeluguRh[r] \o BloodWords[3]
Prefixes == {
  <<>>,
  <<73,32,110,101,101,100,32>>,  \* "I need "
  <<98,108,111,111,100,32,103,114,111,117,112,32>>,  \* "blood group "
  <<2350,2369,2333,2375,32>> }  \* "मुझे "
Suffixes == {
  <<>>,
  <<32,117,114,103,101,110,116,108,121>>,  \* " urgently"
  <<32,2330,2366,2361,2367,2319>> }  \* " चाहिए"
HindiSentence == <<2350,2369,2333,2375,32,2323,32,2346,2377,2332,2367,2335,2367,2357,32,2326,2370,2344,32,2325,2368,32,2340,2369,2352,2306,2340,32,2332,2352,2370,2352,2340,32,2361,2376>>  \* "मुझे ओ पॉजिटिव खून की तुरंत जरूरत है"
TextsWithBloodType ==
  {[text |-> prefix \o FormText(form, g, r) \o suffix, holds |-> LatinGroups[g] \o Signs[r]] :
     prefix \in Prefixes, form \in Forms, g \in 1..4, r \in 1..2, suffix \in Suffixes}
  \cup {[text |-> HindiSentence, holds |-> <<79,43>>]}  \* "O+"
TextsWithoutBloodType ==
  {[text |-> t, holds |-> Null] :
     t \in {<<73,32,110,101,101,100,32,98,108,111,111,100>>,  \* "I need blood"
            <<73,32,97,109,32,97,32,112,111,115,105,116,105,118,101,32,112,101,114,115,111,110>>,  \* "I am a positive person"
            <<116,104,105,115,32,105,115,32,97,32,110,101,103,97,116,105,118,101,32,114,101,118,105,101,119>>,  \* "this is a negative review"
            <<104,101,108,108,111>>,  \* "hello"
            <<112,111,115,105,116,105,118,101>>,  \* "positive"
            <<112,108,97,110,32,66>> }}  \* "plan B"

InitBloodType ==
  /\ NoRoutes
  /\ input \in TextsWithBloodType \cup TextsWithoutBloodType
  /\ op = "init" /\ output = Null
NextBloodType == ExtractBloodType \/ DetectLanguage \/ Translate
SpecBloodType == InitBloodType /\ [][NextBloodType]_vars

\* texts built from dictionary terms, Latin words and spaces
MaxTokens == 2
RECURSIVE TermsOf(_, _)
TermsOf(table, k) ==
  IF k > Len(table) THEN {}
  ELSE {table[k][1][j] : j \in 1..Len(table[k][1])} \cup TermsOf(table, k + 1)
DictionaryTerms == TermsOf(HindiTable, 1) \cup TermsOf(TeluguTable, 1)
OverlappingTokens == {
  <<2352,2325,2381,2340>>,  \* "रक्त"
  <<2352,2325,2381,2340,2342,2366,2344>>,  \* "रक्तदान"
  <<2348,2368,32,2346,2377,2332,2367,2335,2367,2357>>,  \* "बी पॉजिटिव"
  <<2319,2348,2368,32,2346,2377,2332,2367,2335,2367,2357>>,  \* "एबी पॉजिटिव"
  <<3118,3074,3110,3137,3122,3137>>,  \* "మందులు"
  <<3120,3093,3149,3108,3110,3134,3112,3074>>,  \* "రక్తదానం"
  <<110,101,101,100>>,  \* "need"
  <<32>> }  \* " "
RECURSIVE Joined(_)
Joined(n) ==
  IF n = 0 THEN {<<>>} ELSE {t \o s : t \in OverlappingTokens, s \in Joined(n - 1)}
TranslateTexts ==
  DictionaryTerms \cup UNION {Joined(n) : n \in 1..MaxTokens}

InitTranslate ==
  /\ NoRoutes
  /\ input \in {[text |-> t] : t \in TranslateTexts}
  /\ op = "init" /\ output = Null
NextTranslate == Translate \/ TranslateAgain
SpecTranslate == InitTranslate /\ [][NextTranslate]_vars

\* slot maps over the required slots and one optional slot
SlotValues ==
  [bloodType |-> {Undefined, Null, <<>>, <<79,43>>},  \* "O+"
   serviceType |-> {Undefined, <<>>, <<67,111,109,112,97,110,105,111,110,115,104,105,112>>},  \* "Companionship"
   supportType |-> {Undefined, Null, ArrayOf(<<109,101,100,105,99,97,108>>)},  \* "medical"
   complaintCategory |-> {Undefined, Null, <<69,108,101,99,116,114,105,99,105,116,121>>},  \* "Electricity"
   unitsNeeded |-> {Undefined, Num(2)}]
SlotMaps ==
  {[EmptySlots EXCEPT !.bloodType = b, !.serviceType = s, !.supportType = t,
                      !.complaintCategory = c, !.unitsNeeded = u] :
     b \in SlotValues.bloodType, s \in SlotValues.serviceType,
     t \in SlotValues.supportType, c \in SlotValues.complaintCategory,
     u \in SlotValues.unitsNeeded}

InitMissing ==
  /\ NoRoutes
  /\ input \in {[category |-> c, extractedInfo |-> m] : c \in Categories, m \in SlotMaps}
  /\ op = "init" /\ output = Null
NextMissing == GetMissingRequiredInfo
SpecMissing == InitMissing /\ [][NextMissing]_vars

\* texts that hold keywords of the classes of categorizeRequest: for each class none or
\* one of its keywords, written in the order of the tests or in the reverse order
KeywordClasses == <<"blood_request", "emergency", "elder_support", "complaint">>
ClassKeywords ==
  [blood_request |-> <<
     <<98,108,111,111,100>>,  \* "blood"
     <<79,43>>,  \* "O+"
     <<2326,2370,2344>> >>,  \* "खून"
   emergency |-> <<
     <<85,82,71,69,78,84>>,  \* "URGENT"
     <<97,109,98,117,108,97,110,99,101>>,  \* "ambulance"
     <<2340,2369,2352,2306,2340>> >>,  \* "तुरंत"
   elder_support |-> <<
     <<103,114,97,110,100,109,111,116,104,101,114>>,  \* "grandmother"
     <<77,101,100,105,99,105,110,101>>,  \* "Medicine"
     <<2342,2357,2366>> >>,  \* "दवा"
   complaint |-> <<
     <<112,111,116,104,111,108,101>>,  \* "pothole"
     <<110,111,116,32,119,111,114,107,105,110,103>>,  \* "not working"
     <<3128,3118,3128,3149,3119>> >>]  \* "సమస్య"
KeywordChoices == [{KeywordClasses[k] : k \in 1..Len(KeywordClasses)} -> 0..Len(ClassKeywords.complaint)]
ClassOrders == {KeywordClasses, [k \in 1..Len(KeywordClasses) |-> KeywordClasses[Len(KeywordClasses) + 1 - k]]}
RECURSIVE KeywordText(_, _, _)
KeywordText(order, choice, k) ==
  IF k > Len(order) THEN <<>>
  ELSE (IF choice[order[k]] = 0 THEN <<>>
        ELSE <<32,44,32>> \o ClassKeywords[order[k]][choice[order[k]]])  \* " , "
       \o KeywordText(order, choice, k + 1)
CategorizeTexts ==
  {[text |-> <<112,108,101,97,115,101>> \o KeywordText(order, choice, 1),  \* "please"
    holds |-> {c \in DOMAIN choice : choice[c] # 0}] :
     choice \in KeywordChoices, order \in ClassOrders}

InitCategorize ==
  /\ NoRoutes
  /\ input \in CategorizeTexts
  /\ op = "init" /\ output = Null
NextCategorize == CategorizeRequest
SpecCategorize == InitCategorize /\ [][NextCategorize]_vars


ExtractUrgency ==
  /\ op = "init"
  /\ op' = "extractUrgency"
  /\ output' = extractUrgency(input.text)
  /\ UNCHANGED <<input, routeVars, paginationVars>>

\* texts whose only urgency wording is one phrase of one list of extractUrgency, with the
\* level of that list, and texts without any such phrase
UrgencyLists == <<
  [words |-> UrgentWords, level |-> S_urgent],
  [words |-> LowWords, level |-> S_low],
  [words |-> HighWords, level |-> S_high],
  [words |-> MediumWords, level |-> S_medium] >>
UrgencyPrefixes == {
  <<>>,
  <<105,116,32,105,115,32>>,  \* "it is "
  <<73,32,110,101,101,100,32,79,32,112,111,115,105,116,105,118,101,32,98,108,111,111,100,44,32>> }  \* "I need O positive blood, "
UrgencySuffixes == {
  <<>>,
  <<32,112,108,101,97,115,101>> }  \* " please"
TextsWithUrgency ==
  UNION {{[text |-> prefix \o UrgencyLists[l].words[w] \o suffix,
           level |-> UrgencyLists[l].level] :
            w \in 1..Len(UrgencyLists[l].words),
            prefix \in UrgencyPrefixes, suffix \in UrgencySuffixes} :
         l \in 1..Len(UrgencyLists)}
TextsWithoutUrgency ==
  {[text |-> t, level |-> Null] :
     t \in {<<73,32,110,101,101,100,32,98,108,111,111,100>>,  \* "I need blood"
            <<104,101,108,108,111>>,  \* "hello"
            <<109,121,32,103,114,97,110,100,109,111,116,104,101,114,32,110,101,101,100,115,32,99,97,114,101>> }}  \* "my grandmother needs care"

InitUrgency ==
  /\ NoRoutes
  /\ input \in TextsWithUrgency \cup TextsWithoutUrgency
  /\ op = "init" /\ output = Null
NextUrgency == ExtractUrgency
SpecUrgency == InitUrgency /\ [][NextUrgency]_vars

(***************************************************************************)
(* Pagination: getPageNumbers, the rendered controls and their clicks      *)
(***************************************************************************)
maxVisiblePages == 5
S_Ellipsis == <<46,46,46>>  \* "..."

\* for (let i = from; i <= to; i++) pages.push(i)
PushRange(from, to) == [k \in 1..(to - from + 1) |-> Num(from + k - 1)]

\* getPageNumbers with the first window kept up to page 4
getPageNumbersWideStart(page, total) ==
  IF total <= maxVisiblePages THEN PushRange(1, total)
  ELSE IF page <= 4
  THEN PushRange(1, 4) \o <<S_Ellipsis, Num(total)>>
  ELSE IF page >= total - 2
  THEN <<Num(1), S_Ellipsis>> \o PushRange(total - 3, total)
  ELSE <<Num(1), S_Ellipsis>> \o PushRange(page - 1, page + 1) \o <<S_Ellipsis, Num(total)>>

\* the entries of the desktop navigation: page numbers and '...' placeholders
getPageNumbers(page, total) ==
  IF total <= maxVisiblePages THEN PushRange(1, total)
  ELSE IF page <= 3
  THEN PushRange(1, 4) \o <<S_Ellipsis, Num(total)>>
  ELSE IF page >= total - 2
  THEN <<Num(1), S_Ellipsis>> \o PushRange(total - 3, total)
  ELSE <<Num(1), S_Ellipsis>> \o PushRange(page - 1, page + 1) \o <<S_Ellipsis, Num(total)>>

\* the component with a Previous control that is never disabled
PaginationPreviousEnabled(page, total) ==
  IF total <= 1 THEN NothingRendered
  ELSE [shown |-> TRUE, pages |-> getPageNumbers(page, total),
        previousDisabled |-> FALSE,
        nextDisabled |-> page = total]

\* what the component returns: nothing, or the controls with their disabled attributes
\* and the entries of the navigation
Pagination(page, total) ==
  IF total <= 1 THEN NothingRendered
  ELSE [shown |-> TRUE, pages |-> getPageNumbers(page, total),
        previousDisabled |-> page = 1,
        nextDisabled |-> page = total]

\* the parent: it stores the page onPageChange receives as the new currentPage
onPageChange(page) == page

\* Previous of the mobile layout: onClick={() => onPageChange(currentPage - 1)}
ClickPreviousMobile ==
  /\ rendered.shown /\ ~rendered.previousDisabled
  /\ lastPageChange' = Num(currentPage - 1)
  /\ currentPage' = onPageChange(currentPage - 1)
  /\ rendered' = Pagination(currentPage', totalPages)
  /\ UNCHANGED <<totalPages, input, op, output, routeVars>>

\* Next of the mobile layout: onClick={() => onPageChange(currentPage + 1)}
ClickNextMobile ==
  /\ rendered.shown /\ ~rendered.nextDisabled
  /\ lastPageChange' = Num(currentPage + 1)
  /\ currentPage' = onPageChange(currentPage + 1)
  /\ rendered' = Pagination(currentPage', totalPages)
  /\ UNCHANGED <<totalPages, input, op, output, routeVars>>

\* Previous of the desktop navigation
ClickPrevious ==
  /\ rendered.shown /\ ~rendered.previousDisabled
  /\ lastPageChange' = Num(currentPage - 1)
  /\ currentPage' = onPageChange(currentPage - 1)
  /\ rendered' = Pagination(currentPage', totalPages)
  /\ UNCHANGED <<totalPages, input, op, output, routeVars>>

\* an entry of the desktop navigation: a '...' entry is a span without onClick, a number
\* is a button with onClick={() => onPageChange(page)}
ClickPage ==
  /\ rendered.shown
  /\ \E index \in 1..Len(rendered.pages) :
       /\ rendered.pages[index] # S_Ellipsis
       /\ lastPageChange' = rendered.pages[index]
       /\ currentPage' = onPageChange(rendered.pages[index][2])
  /\ rendered' = Pagination(currentPage', totalPages)
  /\ UNCHANGED <<totalPages, input, op, output, routeVars>>

\* Next of the desktop navigation
ClickNext ==
  /\ rendered.shown /\ ~rendered.nextDisabled
  /\ lastPageChange' = Num(currentPage + 1)
  /\ currentPage' = onPageChange(currentPage + 1)
  /\ rendered' = Pagination(currentPage', totalPages)
  /\ UNCHANGED <<totalPages, input, op, output, routeVars>>

\* the component mounted with any number of pages and any page of them; a list without
\* items has no page and shows page 1
MaxTotalPages == 12
InitPagination ==
  /\ NoHarness /\ NoTurns
  /\ totalPages \in 0..MaxTotalPages
  /\ currentPage \in (IF totalPages = 0 THEN {1} ELSE 1..totalPages)
  /\ rendered = Pagination(currentPage, totalPages)
  /\ lastPageChange = Undefined
NextPagination ==
  ClickPreviousMobile \/ ClickNextMobile \/ ClickPrevious \/ ClickPage \/ ClickNext
SpecPagination == InitPagination /\ [][NextPagination]_vars
(***************************************************************************)
(* Properties of the routes                                                *)
(***************************************************************************)
\* a slot is absent: undefined, null, '' or 0
Absent(v) == v \in {Undefined, Null, <<>>, Num(0)}

\* the required slots of a category that are absent from a slot map
MissingRequired(category, slots) ==
  IF category = "blood_request" /\ Absent(slots.bloodType) THEN <<"bloodType">>
  ELSE IF category = "elder_support" /\ Absent(slots.serviceType) /\ Absent(slots.supportType)
  THEN <<"serviceType">>
  ELSE IF category = "complaint" /\ Absent(slots.complaintCategory)
  THEN <<"complaintCategory">>
  ELSE <<>>

\* the turn was answered with res.json({success: true, ..})
Succeeded == resp.status = 200 /\ resp.success

\* the branch that calls createRequestFromChatWithInfo was taken in the last turn
FinalizeEntered ==
  /\ Succeeded
  /\ shouldCreateRequest(resp.data.category)
  /\ ~(resp.data.needsMoreInfo /\ resp.data.missingInfo # <<>>)

\* the AI service failed at every call of the last turn: the classification threw, the
\* extraction reported failure or its own fallback, the question call reported failure,
\* the confirmation threw
AIUnavailable ==
  /\ req.classify.kind = "throws"
  /\ req.extract \in {NoExtraction, ExtractFails, ExtractFallsBack}
  /\ req.question \in {NoQuestion, QuestionFails}
  /\ req.confirm \in {NoConfirmation, ConfirmThrows}

\* some AI call of the last turn threw
AICallThrew ==
  \/ req.classify.kind = "throws"
  \/ req.extract.kind = "throws"
  \/ req.question.kind = "throws"
  \/ req.confirm.kind = "throws"

\* User.findById, Request.save, Chat.save and markAsRequestCreator all succeeded
PersistenceSucceeds == req.userFound /\ req.requestSaved /\ req.chatSaved /\ req.marked

\* C1: a success response of /text or /voice-text never carries both a non-null
\* createdRequestId and needsMoreInfo = true, whatever the extraction call returned
C1_ExclusiveOutcome ==
  Succeeded => ~(resp.data.createdRequestId # Null /\ resp.data.needsMoreInfo)

\* C1: the extraction call returned needsMoreInfo = true with an empty missingRequired
\* list; the request was created and the response still says that more is needed
C1_CreatedWhileAwaiting ==
  /\ Succeeded
  /\ req.extract.success /\ ~req.extract.usingFallback
  /\ req.extract.needsMoreInfo /\ req.extract.missingRequired = <<>>
  /\ resp.data.createdRequestId # Null
  /\ resp.data.needsMoreInfo
  /\ created.type # ""

\* C2: no blood entity is persisted without a blood type: when the handler reaches
\* createRequestFromChatWithInfo for a blood_request whose slot map has no bloodType,
\* nothing is saved, no id is returned and the reply is the apology
C2_NoBloodEntityWithoutBloodType ==
  /\ created.type = "blood" => TruthySlot(created.bloodType)
  /\ (FinalizeEntered /\ resp.data.category = "blood_request"
        /\ ~TruthySlot(resp.data.extractedInfo.bloodType))
     => /\ created = NoEntity
        /\ resp.data.createdRequestId = Null
        /\ resp.data.geminiResponse = SaveErrorMessage

\* C2: an accepted AI extraction without bloodType and with nothing reported missing
\* reached createRequestFromChatWithInfo, which refused it
C2_RefusedWithoutBloodType ==
  /\ FinalizeEntered
  /\ resp.data.category = "blood_request"
  /\ req.extract.success /\ ~req.extract.usingFallback
  /\ req.userFound
  /\ ~TruthySlot(resp.data.extractedInfo.bloodType)
  /\ resp.data.geminiResponse = SaveErrorMessage
  /\ created = NoEntity

\* the first turn of the conversation of C3
AsksForBlood(request) ==
  /\ request.route = "text"
  /\ request.message = <<73,32,110,101,101,100,32,98,108,111,111,100>>  \* "I need blood"
  /\ request.conversationContext = EmptySlots

\* the second turn of the conversation of C3: the reply to the question, with the
\* extractedInfo of the first turn as conversationContext
RepliesWithBloodType ==
  /\ AsksForBlood(prev.req)
  /\ req.route = "text"
  /\ req.message = <<65,66,32,110,101,103,97,116,105,118,101>>  \* "AB negative"
  /\ req.conversationContext = prev.resp.data.extractedInfo

\* C3: with the AI service unavailable, "I need blood" on /text is answered by the
\* question for bloodType and creates nothing, and the reply "AB negative" with the
\* context of that turn creates a blood request with bloodType "AB-"
C3_TwoTurnBloodRequest ==
  /\ AsksForBlood(req) =>
       /\ Succeeded
       /\ resp.data.needsMoreInfo
       /\ resp.data.missingInfo = <<"bloodType">>
       /\ resp.data.geminiResponse = "Question:blood_request.bloodType"
       /\ resp.data.createdRequestId = Null
       /\ created = NoEntity
  /\ RepliesWithBloodType =>
       /\ resp.data.createdRequestId # Null
       /\ created.type = "blood"
       /\ created.bloodType = <<65,66,45>>  \* "AB-"

\* C3: the reply "AB negative" was classified general_inquiry and answered with the
\* general reply; no request was created
C3_ReplyTakenAsGeneralInquiry ==
  /\ RepliesWithBloodType
  /\ Succeeded
  /\ resp.data.category = "general_inquiry"
  /\ resp.data.createdRequestId = Null
  /\ created = NoEntity

\* the turn of C4
UrgentBloodTurn ==
  /\ req.route = "text"
  /\ req.message = <<73,32,110,101,101,100,32,79,32,112,111,115,105,116,105,118,101,32,98,108,111,111,100,32,117,114,103,101,110,116,108,121>>  \* "I need O positive blood urgently"
  /\ AIUnavailable
  /\ PersistenceSucceeds

\* C4: with the AI service unavailable and persistence succeeding, "I need O positive
\* blood urgently" on /text gives category blood_request, bloodType "O+", urgencyLevel
\* "urgent", nothing missing, and a created request whose urgencyLevel is "urgent"
C4_UrgentBloodRequest ==
  UrgentBloodTurn =>
    /\ Succeeded
    /\ resp.data.category = "blood_request"
    /\ resp.data.extractedInfo.bloodType = <<79,43>>  \* "O+"
    /\ resp.data.extractedInfo.urgencyLevel = S_urgent
    /\ resp.data.missingInfo = <<>>
    /\ resp.data.createdRequestId # Null
    /\ created.type = "blood"
    /\ created.urgencyLevel = S_urgent

\* C4: the turn of C4 was handled and its request saved
C4_UrgentBloodRequestCreated ==
  /\ UrgentBloodTurn
  /\ req.conversationContext = EmptySlots
  /\ created.bloodType = <<79,43>>  \* "O+"
  /\ chatLog.saved

\* complaints about a street light with a location after 'near'
StreetLightComplaints ==
  {[message |-> <<115,116,114,101,101,116,32,108,105,103,104,116,115,32,110,111,116,32,119,111,114,107,105,110,103,32,110,101,97,114,32,77,71,32,82,111,97,100>>, location |-> <<77,71,32,82,111,97,100>>],  \* "street lights not working near MG Road" "MG Road"
   [message |-> <<83,116,114,101,101,116,32,108,105,103,104,116,32,98,114,111,107,101,110,32,110,101,97,114,32,71,97,110,100,104,105,32,78,97,103,97,114>>, location |-> <<71,97,110,100,104,105,32,78,97,103,97,114>>]}  \* "Street light broken near Gandhi Nagar" "Gandhi Nagar"

\* C9: a street light complaint with a location after 'near', handled with the AI
\* service unavailable, is categorised complaint with complaint category Road
\* Maintenance (not Electricity) and location as written; its title is "Street lights
\* not working" followed by the location
C9_StreetLightComplaint ==
  \A c \in StreetLightComplaints :
    (req.message = c.message /\ AIUnavailable /\ PersistenceSucceeds) =>
      /\ Succeeded
      /\ resp.data.category = "complaint"
      /\ resp.data.extractedInfo.complaintCategory = <<82,111,97,100,32,77,97,105,110,116,101,110,97,110,99,101>>  \* "Road Maintenance"
      /\ resp.data.extractedInfo.complaintLocation = c.location
      /\ created.type = "complaint"
      /\ created.category = <<82,111,97,100,32,77,97,105,110,116,101,110,97,110,99,101>>  \* "Road Maintenance"
      /\ created.title = <<83,116,114,101,101,116,32,108,105,103,104,116,115,32,110,111,116,32,119,111,114,107,105,110,103>> \o S_Dash \o c.location  \* "Street lights not working"

\* C9: the complaint about the street lights near MG Road was handled on /voice-text
\* and saved
C9_StreetLightComplaintCreated ==
  /\ req.route = "voice-text"
  /\ req.message = <<115,116,114,101,101,116,32,108,105,103,104,116,115,32,110,111,116,32,119,111,114,107,105,110,103,32,110,101,97,114,32,77,71,32,82,111,97,100>>  \* "street lights not working near MG Road"
  /\ AIUnavailable /\ PersistenceSucceeds
  /\ created.type = "complaint"
  /\ resp.data.createdRequestId # Null

\* C10: a throwing AI call never surfaces: when persistence succeeds, a turn in which
\* an AI call threw still ends with a success response
C10_AIFailureNeverSurfaces ==
  (AICallThrew /\ PersistenceSucceeds) => Succeeded

\* C10: the extraction call threw and the turn ended with the 500 response
C10_ExtractionThrowSurfaces ==
  /\ req.extract.kind = "throws"
  /\ PersistenceSucceeds
  /\ resp.status = 500

\* the AI extraction of the last turn was accepted: success and no fallback of its own
ExtractionAccepted == req.extract.success /\ ~req.extract.usingFallback

\* the urgency the three-tier precedence gives for the last turn: the urgency worded in
\* the raw message, else the urgency the accepted AI extraction suggests, else "high"
PrecedenceUrgency ==
  Let(extractUrgency(trim(req.message)), LAMBDA worded :
    IF worded # Null THEN worded
    ELSE IF ExtractionAccepted /\ TruthySlot(req.extract.extractedInfo.urgencyLevel)
    THEN req.extract.extractedInfo.urgencyLevel
    ELSE S_high)

\* C11: the urgencyLevel of every persisted blood request follows the precedence
\* message urgency, then AI-suggested urgency, then "high"
C11_UrgencyPrecedence ==
  created.type = "blood" => created.urgencyLevel = PrecedenceUrgency

\* C11: the message says "urgently", the accepted AI extraction suggested "medium", and
\* the blood request was persisted with urgencyLevel "medium"
C11_AIUrgencyOverridesMessage ==
  /\ req.message = <<73,32,110,101,101,100,32,79,32,112,111,115,105,116,105,118,101,32,98,108,111,111,100,32,117,114,103,101,110,116,108,121>>  \* "I need O positive blood urgently"
  /\ req.conversationContext = EmptySlots
  /\ ExtractionAccepted
  /\ req.extract.extractedInfo.urgencyLevel = S_medium
  /\ created.type = "blood"
  /\ created.urgencyLevel = S_medium

\* C12: no request entity is persisted while a required slot of its category is absent
\* from the merged slot map of the turn
C12_NoEntityWithAbsentRequiredSlot ==
  created.type # "" => MissingRequired(resp.data.category, resp.data.extractedInfo) = <<>>

\* C12: an accepted AI extraction that reports nothing missing and carries no
\* complaintCategory led to a persisted complaint, with the category "Other"
C12_ComplaintSavedWithoutCategory ==
  /\ ExtractionAccepted
  /\ req.extract.missingRequired = <<>>
  /\ resp.data.category = "complaint"
  /\ ~TruthySlot(resp.data.extractedInfo.complaintCategory)
  /\ created.type = "complaint"
  /\ created.category = S_Other

\* saving the conversation log failed in the last turn: saveChatMessage or
\* markAsRequestCreator threw
ChatSaveFailed == turns > 0 /\ (~req.chatSaved \/ ~req.marked)

\* C13: a failure while saving the conversation log leaves the outcome of the turn as it
\* is when the save succeeds: a success response whose message is the reply computed
\* before the save, not the apology
C13_ChatSaveFailureKeepsOutcome ==
  ChatSaveFailed =>
    /\ Succeeded
    /\ resp.data.geminiResponse # SaveErrorMessage

\* C13: the question was computed, saveChatMessage threw in the follow-up branch, and
\* the turn ended with the 500 response
C13_FollowUpSaveFailureSurfaces ==
  /\ req.question.kind = "returns"
  /\ ~req.chatSaved
  /\ resp.status = 500
  /\ chatLog = NoChat

\* the message of the last turn was missing, empty or made of white space only
MessageAbsent == turns > 0 /\ (~Truthy(req.message) \/ Len(trim(req.message)) = 0)

\* C14: a turn whose message is missing, empty or white space ends with the 400
\* response "Message text is required"; no AI call was made, the response carries no
\* result of a stage, and neither a chat log nor a request entity was persisted
C14_AbsentMessageRejected ==
  MessageAbsent =>
    /\ resp = BadRequest
    /\ req.classify = NoClassification /\ req.extract = NoExtraction
    /\ req.question = NoQuestion /\ req.confirm = NoConfirmation
    /\ created = NoEntity /\ chatLog = NoChat /\ nRequests = 0

\* C14: a message of three spaces was sent to /voice-text and rejected
C14_WhiteSpaceMessageRejected ==
  /\ req.route = "voice-text"
  /\ req.message = <<32,32,32>>  \* "   "
  /\ resp.status = 400
  /\ resp.message = "Message text is required"

\* the last turn reached the create branch for a blood_request without a bloodType: the
\* AI classified the message as blood_request, its extraction was accepted and asked
\* for nothing more, and neither it nor the conversationContext holds a bloodType
BloodFinalizeWithoutType ==
  /\ req.classify.kind = "returns" /\ req.classify.category = "blood_request"
  /\ ExtractionAccepted
  /\ ~(req.extract.needsMoreInfo /\ req.extract.missingRequired # <<>>)
  /\ ~TruthySlot(Spread(req.conversationContext, req.extract.extractedInfo).bloodType)

\* C15: finalizing a blood_request without a bloodType aborts the create step only: the
\* turn is answered with a success response whose message is the apology, with
\* createdRequestId null and no entity persisted
C15_ValidationAbortsFinalizeOnly ==
  BloodFinalizeWithoutType =>
    /\ resp.status = 200 /\ resp.success
    /\ resp.data.geminiResponse = SaveErrorMessage
    /\ resp.data.createdRequestId = Null
    /\ created = NoEntity
    /\ nRequests = 0

\* C15: the user was found, the validation of the bloodType refused the request, and the
\* turn was answered "Message processed" with the apology
C15_ApologyAfterValidation ==
  /\ BloodFinalizeWithoutType
  /\ req.userFound
  /\ ~req.extract.needsMoreInfo
  /\ resp.status = 200
  /\ resp.message = "Message processed"
  /\ resp.data.geminiResponse = SaveErrorMessage

\* some stage of the last turn used the local heuristic instead of the output of the AI:
\* the classification, the extraction, the follow-up question or the confirmation
SomeStageFellBack ==
  \/ req.classify.kind = "throws" \/ req.classify.usingFallback
  \/ req.extract.kind = "returns" /\ ~ExtractionAccepted
  \/ req.question.kind = "returns" /\ ~(req.question.success /\ ~req.question.usingFallback)
  \/ req.confirm.kind = "throws"
  \/ req.confirm.kind = "returns" /\ req.confirm.response = ""

\* C16: the usingFallback flag of a success response is true exactly when some stage of
\* the turn used the local heuristic instead of the output of the AI
C16_FallbackFlagCoversEveryStage ==
  Succeeded => (resp.data.usingFallback <=> SomeStageFellBack)

\* C16: the AI classified the message, its extraction failed and extractRequestInfo
\* filled the slots, and the response says usingFallback = false
C16_HeuristicExtractionUnflagged ==
  /\ Succeeded
  /\ req.classify.kind = "returns" /\ ~req.classify.usingFallback
  /\ req.extract = ExtractFails
  /\ resp.data.extractedInfo.bloodType = <<79,43>>  \* "O+"
  /\ ~resp.data.usingFallback

\* the extraction block of the last turn ran and the turn was answered
ExtractionRan == Succeeded /\ shouldCreateRequest(resp.data.category)

\* what extractRequestInfo returns for the message, the category and the
\* conversationContext of the last turn
HeuristicSlots == Spread(req.conversationContext, req.helpers.slots[resp.data.category])

\* the slot map, the missing list and the flag of the response are those of the accepted
\* AI extraction
FromAIExtraction ==
  /\ resp.data.extractedInfo = Spread(req.conversationContext, req.extract.extractedInfo)
  /\ resp.data.missingInfo = req.extract.missingRequired
  /\ resp.data.needsMoreInfo = req.extract.needsMoreInfo

\* the slot map of the response is the given one, and the missing list and the flag are
\* what getMissingRequiredInfo gives for it
FromHeuristic(slots) ==
  /\ resp.data.extractedInfo = slots
  /\ resp.data.missingInfo = getMissingRequiredInfo(resp.data.category, slots)
  /\ resp.data.needsMoreInfo = (resp.data.missingInfo # <<>>)

\* C17 as stated: the slot map, the missing list and needsMoreInfo come from the AI
\* extraction exactly when it reports success without a fallback of its own, and from
\* extractRequestInfo and getMissingRequiredInfo alone in every other case: every slot
\* the response holds is one extractRequestInfo returned
C17_SlotsFromExtractRequestInfoAlone ==
  ExtractionRan =>
    IF ExtractionAccepted THEN FromAIExtraction
    ELSE /\ \A slot \in DOMAIN EmptySlots :
              TruthySlot(resp.data.extractedInfo[slot])
                => resp.data.extractedInfo[slot] = HeuristicSlots[slot]
         /\ resp.data.missingInfo = getMissingRequiredInfo(resp.data.category, HeuristicSlots)
         /\ resp.data.needsMoreInfo = (resp.data.missingInfo # <<>>)

\* C17 amended: in every other case they come from the local helpers alone, which on
\* /text include extractUrgency filling an urgencyLevel that extractRequestInfo left
\* empty; no part of the AI extraction is used
C17_SlotsFromOneSource ==
  ExtractionRan =>
    IF ExtractionAccepted THEN FromAIExtraction
    ELSE FromHeuristic(IF req.route = "text" /\ ~TruthySlot(HeuristicSlots.urgencyLevel)
                       THEN [HeuristicSlots EXCEPT !.urgencyLevel = req.helpers.urgency]
                       ELSE HeuristicSlots)

\* C17: the AI extraction reported success with its own fallback and the bloodType "A-";
\* the response carries the bloodType read from the message instead
C17_FallbackExtractionIgnored ==
  /\ ExtractionRan
  /\ req.extract = ExtractFallsBack
  /\ req.conversationContext = EmptySlots
  /\ resp.data.category = "blood_request"
  /\ resp.data.extractedInfo.bloodType = <<79,43>>  \* "O+"
  /\ resp.data.missingInfo = <<>>

\* the last turn ended by asking a follow-up question
FollowUpAsked ==
  /\ Succeeded
  /\ shouldCreateRequest(resp.data.category)
  /\ resp.data.needsMoreInfo /\ resp.data.missingInfo # <<>>

\* the slots the extraction of the last turn supplied: those of the accepted AI
\* extraction, else those extractRequestInfo read from the message
SuppliedSlots ==
  IF ExtractionAccepted THEN req.extract.extractedInfo
  ELSE req.helpers.slots[resp.data.category]

\* C18: a turn that ends by asking a follow-up question creates no entity and returns
\* createdRequestId null; the extractedInfo of the response keeps every slot of the
\* conversationContext the turn did not supply anew, and the chat log is saved as pending
\* with the same slot map and missing list
C18_FollowUpKeepsPartialSlots ==
  FollowUpAsked =>
    /\ created = NoEntity /\ nRequests = 0
    /\ resp.data.createdRequestId = Null
    /\ \A slot \in DOMAIN EmptySlots :
         (TruthySlot(req.conversationContext[slot]) /\ SuppliedSlots[slot] = Undefined)
           => resp.data.extractedInfo[slot] = req.conversationContext[slot]
    /\ \A slot \in DOMAIN EmptySlots :
         TruthySlot(SuppliedSlots[slot]) => resp.data.extractedInfo[slot] = SuppliedSlots[slot]
    /\ chatLog.saved /\ chatLog.pendingRequest
    /\ chatLog.extractedInfo = resp.data.extractedInfo
    /\ chatLog.missingInfo = resp.data.missingInfo

\* C18: a complaint without a category was sent with the bloodType "O-" in the
\* conversationContext; the question for complaintCategory was asked and the response
\* and the chat log keep the bloodType
C18_ContextKeptWhileAsking ==
  /\ FollowUpAsked
  /\ req.message = <<116,104,101,114,101,32,105,115,32,97,32,112,114,111,98,108,101,109>>  \* "there is a problem"
  /\ req.conversationContext.bloodType = <<79,45>>  \* "O-"
  /\ resp.data.missingInfo = <<"complaintCategory">>
  /\ resp.data.extractedInfo.bloodType = <<79,45>>  \* "O-"
  /\ chatLog.extractedInfo.bloodType = <<79,45>>  \* "O-"

ApologyReturned == turns > 0 /\ resp.status = 200 /\ resp.data.geminiResponse = SaveErrorMessage

\* C25: whenever the response carries the apology "I understood your request, but
\* encountered an error saving it. Please try again.", the turn persisted no request
\* entity and the response's createdRequestId is null
C25_ApologyMeansNothingPersisted ==
  ApologyReturned => (created = NoEntity /\ resp.data.createdRequestId = Null)

\* C25: the request was created, markAsRequestCreator threw after the chat log was
\* saved, and the response carries the apology together with the id of the entity
C25_ApologyWithCreatedRequest ==
  /\ ApologyReturned
  /\ req.requestSaved /\ req.chatSaved /\ ~req.marked
  /\ created # NoEntity
  /\ resp.data.createdRequestId = ObjectId(nRequests)

\* the reply templates that say a request has been created: the four request entries of
\* generateFallbackResponse and the confirmations of generateSuccessMessage
CreatedTemplates ==
  {generateFallbackResponse(c, <<>>) : c \in FallbackCategories}
    \cup {generateSuccessMessage(c) : c \in Categories}

\* the response of the last turn says that a request was created
StatesCreated ==
  /\ turns > 0 /\ resp.status = 200
  /\ \/ resp.message = "Request created successfully"
     \/ resp.data.geminiResponse \in CreatedTemplates

\* C26: no turn answers that a request was created unless the turn persisted a request
\* entity
C26_CreatedOnlyWhenPersisted ==
  StatesCreated => created # NoEntity

\* C26: the classification threw, the heuristic category is emergency, and the turn
\* answered with the "Emergency Request Created" template without persisting an entity
C26_EmergencyClaimedCreated ==
  /\ req.classify.kind = "throws"
  /\ resp.status = 200
  /\ resp.data.category = "emergency"
  /\ resp.data.geminiResponse = generateFallbackResponse("emergency", <<>>)
  /\ resp.data.createdRequestId = Null
  /\ created = NoEntity

\* the route the last turn did not take, and the outcome of the extraction block on that
\* route for the same message, category, context and AI extraction result
OtherRoute == IF req.route = "text" THEN "voice-text" ELSE "text"
OnOtherRoute ==
  Extracted(OtherRoute, req.helpers, resp.data.category, req.conversationContext, req.extract)

\* the urgencyLevel createRequestFromChatWithInfo stores for a blood request
StoredUrgency(extractedInfo, priority) ==
  OrSlot(extractedInfo.urgencyLevel, IF priority = S_urgent THEN S_urgent ELSE S_high)

\* C27: the two routes decide alike: for the same message, context and AI behaviour the
\* other route yields the same extractedInfo, missingInfo and needsMoreInfo, and the same
\* urgencyLevel of a persisted blood request
C27_RoutesDecideAlike ==
  ExtractionRan =>
    /\ resp.data.extractedInfo = OnOtherRoute.extractedInfo
    /\ resp.data.missingInfo = OnOtherRoute.missingInfo
    /\ resp.data.needsMoreInfo = OnOtherRoute.needsMoreInfo
    /\ created.type = "blood" =>
         created.urgencyLevel = StoredUrgency(OnOtherRoute.extractedInfo, resp.data.priority)

\* C27: "I need O positive blood asap" sent to /voice-text with the AI failing was
\* persisted with urgencyLevel "high"; /text stores "urgent" for the same turn
C27_AsapHighOnVoiceUrgentOnText ==
  /\ req.route = "voice-text"
  /\ req.message = <<73,32,110,101,101,100,32,79,32,112,111,115,105,116,105,118,101,32,98,108,111,111,100,32,97,115,97,112>>  \* "I need O positive blood asap"
  /\ req.classify.kind = "throws" /\ ~ExtractionAccepted
  /\ created.type = "blood"
  /\ ~TruthySlot(resp.data.extractedInfo.urgencyLevel)
  /\ created.urgencyLevel = S_high
  /\ OnOtherRoute.extractedInfo.urgencyLevel = S_urgent
  /\ StoredUrgency(OnOtherRoute.extractedInfo, resp.data.priority) = S_urgent

(***************************************************************************)
(* Properties of the helpers                                               *)
(***************************************************************************)
\* C5: for the Hindi sentence, detectLanguageFromText returns 'hi', extractBloodType
\* returns "O+", and the text translateToEnglish returns contains "blood" and "urgent"
C5_HindiSentence ==
  input.text = HindiSentence =>
    /\ op = "detectLanguageFromText" => output = "hi"
    /\ op = "extractBloodType" => output = <<79,43>>  \* "O+"
    /\ op = "translateToEnglish" => includes(output, S_blood) /\ includes(output, S_urgent)

\* C5: extractBloodType returned null for the Hindi sentence
C5_HindiBloodTypeNotFound ==
  /\ input.text = HindiSentence
  /\ op = "extractBloodType"
  /\ output = Null

\* C6: extractBloodType returns the blood type a text carries, in any of the supported
\* forms, and null for a text that carries none
C6_ExtractBloodTypeExact ==
  op = "extractBloodType" => output = input.holds

\* C6: extractBloodType took the article "a" before "positive" for a blood group
C6_ArticleTakenForBloodGroup ==
  /\ op = "extractBloodType"
  /\ input.text = <<73,32,97,109,32,97,32,112,111,115,105,116,105,118,101,32,112,101,114,115,111,110>>  \* "I am a positive person"
  /\ output = <<65,43>>  \* "A+"

\* C7: getMissingRequiredInfo returns exactly the required slots that are absent:
\* bloodType for blood_request, serviceType for elder_support when supportType is
\* absent too, complaintCategory for complaint, and nothing otherwise
C7_MissingRequiredExact ==
  op = "getMissingRequiredInfo" =>
    /\ output = MissingRequired(input.category, input.extractedInfo)
    /\ \A i \in 1..Len(output) : output[i] \in {"bloodType", "serviceType", "complaintCategory"}

\* C7: getMissingRequiredInfo('blood_request', {}) returned ['bloodType']
C7_EmptyBloodRequest ==
  /\ op = "getMissingRequiredInfo"
  /\ input.category = "blood_request"
  /\ input.extractedInfo = EmptySlots
  /\ output = <<"bloodType">>

\* C8: translateToEnglish applied to its own output returns that output
C8_TranslateIdempotent ==
  op = "translateToEnglish twice" => output[2] = output[1]

\* C8: a text with a term twice and a term that holds another term was translated twice
C8_OverlappingTermsTranslated ==
  /\ op = "translateToEnglish twice"
  /\ input.text = <<2352,2325,2381,2340,2342,2366,2344,2352,2325,2381,2340>>  \* "रक्तदानरक्त"
  /\ output[1] = <<98,108,111,111,100,2342,2366,2344,98,108,111,111,100>>  \* "bloodदानblood"

\* the first class, in the order of the tests of categorizeRequest, that is among the
\* given classes
RECURSIVE EarliestClass(_, _)
EarliestClass(classes, k) ==
  IF k > Len(KeywordClasses) THEN "general_inquiry"
  ELSE IF KeywordClasses[k] \in classes THEN KeywordClasses[k]
  ELSE EarliestClass(classes, k + 1)

\* C19: categorizeRequest returns the earliest class, in the order blood_request,
\* emergency, elder_support, complaint, that has a keyword in the text, and
\* general_inquiry for a text without keywords
C19_EarliestMatchingCategory ==
  op = "categorizeRequest" => output = EarliestClass(input.holds, 1)

\* C19: a text with an emergency keyword before a blood keyword was categorised
\* blood_request
C19_BloodBeforeEmergency ==
  /\ op = "categorizeRequest"
  /\ input.text = <<112,108,101,97,115,101,32,44,32,112,111,116,104,111,108,101,32,44,32,77,101,100,105,99,105,110,101,32,44,32,85,82,71,69,78,84,32,44,32,79,43>>  \* "please , pothole , Medicine , URGENT , O+"
  /\ input.holds = {"blood_request", "emergency", "elder_support", "complaint"}
  /\ output = "blood_request"

\* the text holds a code point of the script
HasCodePoint(text, script) == \E k \in 1..Len(text) : text[k] \in script

\* C20: detectLanguageFromText returns 'hi' for every text that holds a Devanagari code
\* point, texts that also hold Telugu code points included, and 'te' for a text that
\* holds Telugu and no Devanagari code points
C20_DevanagariBeforeTelugu ==
  op = "detectLanguageFromText" =>
    /\ HasCodePoint(input.text, Devanagari) => output = "hi"
    /\ (HasCodePoint(input.text, Telugu) /\ ~HasCodePoint(input.text, Devanagari))
         => output = "te"

\* C20: a text with a Devanagari word followed by Telugu words was classified 'te'
C20_MixedTextTakenForTelugu ==
  /\ op = "detectLanguageFromText"
  /\ input.text = <<2350,2369,2333,2375,32>> \o FormText("telugu", 1, 1)  \* "मुझे "
  /\ HasCodePoint(input.text, Devanagari) /\ HasCodePoint(input.text, Telugu)
  /\ output = "te"


\* C24: every term of the translation tables is effective: translateToEnglish of a text
\* that is exactly one term of an entry is the English replacement of that entry
C24_EveryTermEffective ==
  op = "translateToEnglish" =>
    \A table \in {HindiTable, TeluguTable} : \A k \in 1..Len(table) :
      (\E j \in 1..Len(table[k][1]) : input.text = table[k][1][j])
        => output = table[k][2]

\* C24: the term रक्तदान was translated, and the result is "blood" followed by दान
C24_BloodDonationPreempted ==
  /\ op = "translateToEnglish"
  /\ input.text = <<2352,2325,2381,2340,2342,2366,2344>>  \* "रक्तदान"
  /\ output = <<98,108,111,111,100>> \o <<2342,2366,2344>>  \* "blood" "दान"
  /\ output # <<98,108,111,111,100,32,100,111,110,97,116,105,111,110>>  \* "blood donation"

\* C28: extractUrgency returns the level of the list the text's urgency phrase belongs
\* to, and null for a text without such a phrase; in particular "not urgent" gives "low"
C28_LevelOfMatchingList ==
  op = "extractUrgency" => output = input.level

\* C28: extractUrgency was applied to "not urgent", a phrase of the low list, and
\* returned "urgent"
C28_NotUrgentGivesUrgent ==
  /\ op = "extractUrgency"
  /\ input.text = <<110,111,116,32,117,114,103,101,110,116>>  \* "not urgent"
  /\ input.level = S_low
  /\ output = S_urgent

(***************************************************************************)
(* Properties of the Pagination component                                  *)
(***************************************************************************)
\* the entries of the navigation rendered last, and the positions of its page numbers
Pages == rendered.pages
NumberedAt == {i \in 1..Len(Pages) : Pages[i] # S_Ellipsis}

\* C29: for totalPages >= 2 and currentPage in 1..totalPages getPageNumbers returns at
\* most 7 entries; its numbers are strictly increasing within 1..totalPages and include
\* 1, totalPages, currentPage and the neighbours of currentPage that exist; every '...'
\* stands between two numbers that differ by at least 2; for totalPages <= 5 the list is
\* 1..totalPages; for totalPages <= 1 nothing is rendered
C29_PageNumbersWellFormed ==
  /\ totalPages <= 1 => rendered = NothingRendered
  /\ totalPages >= 2 =>
       /\ rendered.shown
       /\ Len(Pages) <= 7
       /\ \A i \in NumberedAt : \E n \in 1..totalPages : Pages[i] = Num(n)
       /\ \A i, j \in NumberedAt : i < j => Pages[i][2] < Pages[j][2]
       /\ \A n \in {1, totalPages, currentPage - 1, currentPage, currentPage + 1} :
            n \in 1..totalPages => \E i \in NumberedAt : Pages[i] = Num(n)
       /\ \A i \in (1..Len(Pages)) \ NumberedAt :
            /\ i - 1 \in NumberedAt /\ i + 1 \in NumberedAt
            /\ Pages[i + 1][2] - Pages[i - 1][2] >= 2
       /\ totalPages <= 5 => Pages = PushRange(1, totalPages)

\* C29: page 5 of 9 was chosen and the navigation shows 1 ... 4 5 6 ... 9
C29_BothEllipsesShown ==
  /\ totalPages = 9 /\ lastPageChange = Num(5) /\ currentPage = 5
  /\ rendered.shown
  /\ rendered.pages = <<Num(1), S_Ellipsis, Num(4), Num(5), Num(6), S_Ellipsis, Num(9)>>

\* C30: whatever enabled controls are clicked, currentPage stays within 1..totalPages:
\* Previous is disabled at page 1, Next is disabled at page totalPages, and onPageChange
\* is never called with 0, totalPages + 1 or the '...' placeholder
C30_ClicksStayInRange ==
  rendered.shown =>
    /\ currentPage \in 1..totalPages
    /\ currentPage = 1 => rendered.previousDisabled
    /\ currentPage = totalPages => rendered.nextDisabled
    /\ lastPageChange \in {Undefined} \cup {Num(n) : n \in 1..totalPages}

\* C30: Next was clicked on page 6 of 7, the parent moved to page 7, and Next is disabled
C30_NextDisabledOnLastPage ==
  /\ totalPages = 7 /\ lastPageChange = Num(7) /\ currentPage = 7
  /\ rendered.shown
  /\ rendered.nextDisabled /\ ~rendered.previousDisabled
====
